---------------------------- MODULE Spec2Model ----------------------------
(***************************************************************************)
(* A model of the TravelLog trip planner (src/app.py): the rows of the     *)
(* remote table store, the request handlers that read and write them, and  *)
(* the schedule list view (partition, sort, group, photo dedupe and trim). *)
(*                                                                         *)
(* Conventions.  A table is a set of rows (records); ids are serial per    *)
(* table and never reused.  A text value is a string, "" when blank.  A    *)
(* date string "yyyy-mm-dd" is the token sequence                          *)
(* <<"yyyy","-","mm","-",day>>, the null (or blank) date is <<>>, and the  *)
(* days are numbered 1..DateMax, DateMax standing for date.max.  A URL is  *)
(* a pair <<scheme, token>>; the null URL is NullUrl.  The cookie of a     *)
(* request is an input of its handler: the client sends what it likes.     *)
(***************************************************************************)
EXTENDS Integers, Sequences, FiniteSets, TLC

VARIABLES
    trips,                  \* travel_trips: the set of trip ids
    places,                 \* travel_places
    place_photos,           \* travel_place_photos
    schedules,              \* travel_schedules
    schedule_photos,        \* travel_schedule_photos
    schedule_posts,         \* travel_schedule_posts
    schedule_post_photos,   \* travel_schedule_post_photos
    hotels,                 \* travel_hotels
    hotel_photos,           \* travel_hotel_photos
    memos,                  \* travel_memos
    flights,                \* travel_flights
    next_id,                \* table name -> the next serial id of the table
    uploads,                \* the number of objects put in the storage bucket
    today,                  \* date.today(), a day number
    trip_settings,          \* travel_trip_settings
    cookie,                 \* the travel_trip_id cookie the browser holds
    inflight,               \* request -> where it stands and what it has read
    response                \* the response of the last request

vars == <<trips, places, place_photos, schedules, schedule_photos, schedule_posts,
          schedule_post_photos, hotels, hotel_photos, memos, flights, next_id,
          uploads, today, trip_settings, cookie, inflight, response>>

place_tables == <<places, place_photos>>
schedule_tables == <<schedules, schedule_photos, schedule_posts, schedule_post_photos>>
hotel_tables == <<hotels, hotel_photos>>

-----------------------------------------------------------------------------
(* Bounds of the model. *)

NumTrips == 2
MaxScheduleId == 3
MaxSchedulePhotoId == 5
MaxPostId == 2
MaxPlaceId == 2
MaxPlacePhotoId == 3
MaxHotelId == 2
MaxHotelPhotoId == 3
MaxMemoId == 2
MaxFlightId == 2
MaxUploads == 5
NumRefs == 1
MaxGroupLen == 3

(* date.max, the last day (src/app.py:872); the days are 1..DateMax. *)
DateMax == 3

(* The cap of the photo list of a schedule (src/app.py:947). *)
PhotoCap == 3

-----------------------------------------------------------------------------
(* Sequences and sorting. *)

Range(s) == {s[i] : i \in 1..Len(s)}

Front(s) == SubSeq(s, 1, Len(s) - 1)

Last(s) == s[Len(s)]

RECURSIVE SeqOfSet(_)
(* A set of rows as the sequence in ascending id: .order("id", desc=False). *)
SeqOfSet(S) ==
    IF S = {} THEN <<>>
    ELSE LET m == CHOOSE r \in S : \A q \in S : r.id <= q.id
         IN  <<m>> \o SeqOfSet(S \ {m})

RECURSIVE LexLess(_, _)
(* Python's order of tuples of integers. *)
LexLess(a, b) ==
    IF a = <<>> THEN b # <<>>
    ELSE IF b = <<>> THEN FALSE
    ELSE IF Head(a) < Head(b) THEN TRUE
    ELSE IF Head(a) > Head(b) THEN FALSE
    ELSE LexLess(Tail(a), Tail(b))

InsertAt(s, p, x) == SubSeq(s, 1, p) \o <<x>> \o SubSeq(s, p + 1, Len(s))

RECURSIVE SortedAsc(_)
(* list.sort(key=...): stable, ascending; the items are [key, row]. *)
SortedAsc(s) ==
    IF s = <<>> THEN <<>>
    ELSE LET done == SortedAsc(Front(s))
             x == Last(s)
             p == Cardinality({i \in 1..Len(done) : ~LexLess(x.key, done[i].key)})
         IN  InsertAt(done, p, x)

RECURSIVE SortedDesc(_)
(* list.sort(key=..., reverse=True): stable, descending. *)
SortedDesc(s) ==
    IF s = <<>> THEN <<>>
    ELSE LET done == SortedDesc(Front(s))
             x == Last(s)
             p == Cardinality({i \in 1..Len(done) : ~LexLess(done[i].key, x.key)})
         IN  InsertAt(done, p, x)

Rows(keyed) == [i \in 1..Len(keyed) |-> keyed[i].row]

-----------------------------------------------------------------------------
(* Dates and URLs. *)

NullDate == <<>>

IsoDate(d) == <<"yyyy", "-", "mm", "-", ToString(d)>>

(* parse_date: the day of a date string, 0 (None) for a null, blank or
   unparseable one. *)
parse_date(value) ==
    IF value = <<>> THEN 0
    ELSE IF Len(value) = 5 /\ \E d \in 1..DateMax : value = IsoDate(d)
         THEN CHOOSE d \in 1..DateMax : value = IsoDate(d)
         ELSE 0

NullUrl == <<"null", 0>>

GoogleRef(t) == <<"google-ref:", t>>

(* The public URL of the object stored under the k-th random key. *)
PublicUrl(k) == <<"storage:places/", k>>


(* A variant of unquote that leaves the token as it is spelled. *)
quoted_as_is(token) == token

(* urllib.parse.unquote of a token: -t is the percent-encoded spelling of
   the token t. *)
unquote(token) == IF token < 0 THEN 0 - token ELSE token

(* extract_photo_reference: the decoded token of a raw URL that carries one
   in a photo_reference= or 1s query parameter, 0 (None) otherwise. *)
extract_photo_reference(url) ==
    IF url[1] \in {"?photo_reference=", "&photo_reference=", "?1s", "&1s"}
    THEN unquote(url[2])
    ELSE 0

(* normalize_photo_url *)
normalize_photo_url(value) ==
    IF value = NullUrl THEN NullUrl
    ELSE IF value[1] = "google-ref:" THEN value
    ELSE IF extract_photo_reference(value) # 0
         THEN GoogleRef(extract_photo_reference(value))
         ELSE value

-----------------------------------------------------------------------------
(* Uploads.  A file is [filename, size]: the filename a token sequence
   <<stem, ".", ext>>, <<stem>> without a dot, <<>> when none was sent. *)

ALLOWED_IMAGE_EXT == {"jpg", "jpeg", "png", "webp"}

(* str.lower() and str.strip() on the strings the model uses. *)
Lower(s) ==
    CASE s = "JPG" -> "jpg"
      [] s = "PNG" -> "png"
      [] s = "Cafe" -> "cafe"
      [] s = "SPOT" -> "spot"
      [] s = " Cafe " -> " cafe "
      [] OTHER -> s

Strip(s) ==
    CASE s = " Cafe " -> "Cafe"
      [] s = " cafe " -> "cafe"
      [] s = " ja:cafe " -> "ja:cafe"
      [] s = " " -> ""
      [] OTHER -> s

(* A stem of characters outside ASCII (the stand-in of a Japanese word). *)
NonAsciiStem == "ja:shashin"

(* werkzeug's secure_filename on the filenames of the model: it drops every
   character outside ASCII and then strips dots from both ends, so a stem of
   such characters goes together with the dot that followed it. *)
secure_filename(filename) ==
    IF filename # <<>> /\ Head(filename) = NonAsciiStem
    THEN IF Len(filename) = 3 THEN <<Last(filename)>> ELSE <<>>
    ELSE filename

(* upload_place_photo: whether the file is uploaded (a URL is returned). *)
upload_accepts(file) ==
    /\ file.filename # <<>>
    /\ "." \in Range(secure_filename(file.filename))
    /\ Lower(Last(secure_filename(file.filename))) \in ALLOWED_IMAGE_EXT
    /\ file.size > 0

RECURSIVE upload_place_photos(_, _)
(* upload_place_photos: the URLs of the accepted files, in input order, the
   bucket holding `n` objects before. *)
upload_place_photos(files, n) ==
    IF files = <<>> THEN <<>>
    ELSE IF upload_accepts(Head(files))
         THEN <<PublicUrl(n + 1)>> \o upload_place_photos(Tail(files), n + 1)
         ELSE upload_place_photos(Tail(files), n)

-----------------------------------------------------------------------------
(* The active trip. *)

NoCookie == -1

(* A cookie that is not a string of digits, such as "abc". *)
NonDigitCookie == -2

(* A cookie that str.isdigit accepts and int rejects with ValueError: a
   digit character outside 0-9 such as a superscript two, or a string of more
   decimal digits than int converts. *)
UnconvertibleCookie == -3

(* str.isdigit of a cookie or form value. *)
isdigit(c) == c >= 0 \/ c = UnconvertibleCookie

(* get_trip_cookie_id: None (0) unless the cookie is a string of digits.  The
   conversion of an UnconvertibleCookie raises: a request that carries one is
   the action ScopedRequestRaises and never evaluates this operator. *)
get_trip_cookie_id(c) == IF c < 0 THEN 0 ELSE c

(* get_active_trip, fetch_trip: the id of the trip row, 0 when there is none. *)
get_active_trip(c) ==
    LET trip_id == get_trip_cookie_id(c)
    IN  IF trip_id = 0 THEN 0
        ELSE IF trip_id \in trips THEN trip_id ELSE 0

Redirect(to) == [template |-> "redirect", to |-> to]

(* The photo URLs a create or update form carries: the Google references
   (photo_refs, else those extracted from photo_urls) and then the uploads. *)
form_photo_urls(form) ==
    LET extracted == SelectSeq([i \in 1..Len(form.photo_urls) |->
                                   extract_photo_reference(form.photo_urls[i])],
                               LAMBDA t : t # 0)
        google_photo_refs == IF form.photo_refs # <<>> THEN form.photo_refs
                             ELSE extracted
        google_photo_entries == [i \in 1..Len(google_photo_refs) |->
                                     GoogleRef(google_photo_refs[i])]
    IN  google_photo_entries \o upload_place_photos(form.photo_files, uploads)

accepted_count(files) == Len(upload_place_photos(files, 0))

-----------------------------------------------------------------------------
(* Schedules: POST /schedule, update, delete, photo delete. *)

schedule_photo_rows(schedule_id, urls, first_id) ==
    {[id |-> first_id + i - 1, schedule_id |-> schedule_id, photo_url |-> urls[i]] :
        i \in 1..Len(urls)}

Take(s, n) == SubSeq(s, 1, IF Len(s) < n THEN Len(s) ELSE n)

RECURSIVE schedule_insert_entries(_, _, _)
(* The loop of POST /schedule over the entries of the form: per entry one
   schedule row, then its photo rows, at most three.  st is the store so far:
   [schedules, schedule_photos, sid, pid, uploads]. *)
schedule_insert_entries(entries, trip, st) ==
    IF entries = <<>> THEN st
    ELSE LET entry == Head(entries)
             row == [id |-> st.sid, trip_id |-> trip,
                     title |-> IF entry.title # "" THEN entry.title ELSE "yotei",
                     date |-> entry.date, detail |-> entry.detail,
                     address |-> entry.address,
                     photo_url |-> normalize_photo_url(entry.photo_url)]
             extracted == SelectSeq([i \in 1..Len(entry.photo_urls) |->
                                        extract_photo_reference(entry.photo_urls[i])],
                                    LAMBDA t : t # 0)
             google_photo_refs == IF entry.photo_refs # <<>> THEN entry.photo_refs
                                  ELSE extracted
             google_photo_entries == [i \in 1..Len(google_photo_refs) |->
                                          GoogleRef(google_photo_refs[i])]
             photo_urls == upload_place_photos(entry.photo_files, st.uploads)
             all_photo_urls == Take(google_photo_entries \o photo_urls, PhotoCap)
         IN  schedule_insert_entries(Tail(entries), trip,
                 [schedules |-> st.schedules \cup {row},
                  schedule_photos |-> st.schedule_photos \cup
                      schedule_photo_rows(st.sid, all_photo_urls, st.pid),
                  sid |-> st.sid + 1,
                  pid |-> st.pid + Len(all_photo_urls),
                  uploads |-> st.uploads + Len(photo_urls)])

(* POST /schedule; entries is what collect_schedule_entries returns. *)
SchedulePost(c, entries) ==
    LET trip == get_active_trip(c)
        st == schedule_insert_entries(entries, trip,
                  [schedules |-> schedules, schedule_photos |-> schedule_photos,
                   sid |-> next_id.schedules, pid |-> next_id.schedule_photos,
                   uploads |-> uploads])
    IN  IF trip = 0
        THEN /\ response' = Redirect("trips")
             /\ UNCHANGED <<trips, place_tables, schedule_tables, hotel_tables, memos,
                            flights, next_id, uploads, today, trip_settings, cookie, inflight>>
        ELSE /\ schedules' = st.schedules
             /\ schedule_photos' = st.schedule_photos
             /\ next_id' = [next_id EXCEPT !.schedules = st.sid,
                                           !.schedule_photos = st.pid]
             /\ uploads' = st.uploads
             /\ response' = Redirect("schedule")
             /\ UNCHANGED <<trips, place_tables, schedule_posts, schedule_post_photos,
                            hotel_tables, memos, flights, today, trip_settings, cookie, inflight>>

(* POST /schedule/<schedule_id>/update *)
ScheduleUpdate(c, schedule_id, form) ==
    LET trip == get_active_trip(c)
        all_photo_urls == form_photo_urls(form)
        n_up == accepted_count(form.photo_files)
        updated(r) == [id |-> r.id, trip_id |-> r.trip_id,
                       title |-> IF form.title # "" THEN form.title ELSE "yotei",
                       date |-> form.date, detail |-> form.detail,
                       address |-> form.address,
                       photo_url |-> normalize_photo_url(form.photo_url)]
    IN  IF trip = 0
        THEN /\ response' = Redirect("trips")
             /\ UNCHANGED <<trips, place_tables, schedule_tables, hotel_tables, memos,
                            flights, next_id, uploads, today, trip_settings, cookie, inflight>>
        ELSE IF form.title # "" \/ form.date # <<>> \/ form.detail # ""
                  \/ form.address # ""
        THEN /\ schedules' = {IF r.id = schedule_id /\ r.trip_id = trip
                              THEN updated(r) ELSE r : r \in schedules}
             /\ schedule_photos' = schedule_photos \cup
                    schedule_photo_rows(schedule_id, all_photo_urls,
                                        next_id.schedule_photos)
             /\ next_id' = [next_id EXCEPT !.schedule_photos = @ + Len(all_photo_urls)]
             /\ uploads' = uploads + n_up
             /\ response' = Redirect("schedule")
             /\ UNCHANGED <<trips, place_tables, schedule_posts, schedule_post_photos,
                            hotel_tables, memos, flights, today, trip_settings, cookie, inflight>>
        ELSE /\ response' = Redirect("schedule")
             /\ UNCHANGED <<trips, place_tables, schedule_tables, hotel_tables, memos,
                            flights, next_id, uploads, today, trip_settings, cookie, inflight>>

(* POST /schedule/<schedule_id>/delete *)
ScheduleDelete(c, schedule_id) ==
    LET trip == get_active_trip(c)
    IN  IF trip = 0
        THEN /\ response' = Redirect("trips")
             /\ UNCHANGED <<trips, place_tables, schedule_tables, hotel_tables, memos,
                            flights, next_id, uploads, today, trip_settings, cookie, inflight>>
        ELSE /\ schedules' = {r \in schedules :
                                  ~(r.id = schedule_id /\ r.trip_id = trip)}
             /\ response' = Redirect("schedule")
             /\ UNCHANGED <<trips, place_tables, schedule_photos, schedule_posts,
                            schedule_post_photos, hotel_tables, memos, flights,
                            next_id, uploads, today, trip_settings, cookie, inflight>>

(* POST /schedule/photo/delete; photo_id and schedule_id are 0 and photo_url
   is NullUrl when the form does not give them. *)
SchedulePhotoDelete(c, photo_id, schedule_id, photo_url) ==
    LET trip == get_active_trip(c)
        by_id == IF photo_id # 0
                 THEN {p \in schedule_photos : p.id = photo_id} ELSE {}
        by_pair == IF schedule_id # 0 /\ photo_url # NullUrl
                   THEN {p \in schedule_photos :
                            p.schedule_id = schedule_id /\ p.photo_url = photo_url}
                   ELSE {}
    IN  IF trip = 0
        THEN /\ response' = Redirect("trips")
             /\ UNCHANGED <<trips, place_tables, schedule_tables, hotel_tables, memos,
                            flights, next_id, uploads, today, trip_settings, cookie, inflight>>
        ELSE /\ schedule_photos' = (schedule_photos \ by_id) \ by_pair
             /\ schedules' =
                    IF schedule_id # 0 /\ photo_url # NullUrl
                    THEN {IF r.id = schedule_id /\ r.photo_url = photo_url
                          THEN [r EXCEPT !.photo_url = NullUrl] ELSE r : r \in schedules}
                    ELSE schedules
             /\ response' = Redirect("schedule")
             /\ UNCHANGED <<trips, place_tables, schedule_posts, schedule_post_photos,
                            hotel_tables, memos, flights, next_id, uploads, today, trip_settings, cookie, inflight>>

-----------------------------------------------------------------------------
(* GET /schedule: the schedule list view. *)

(* date.min (src/app.py:873): the first day. *)
DateMin == 1

(* The Maps API key of the configuration; "" when not set. *)
api_key == "key"

Undated == <<"undated">>

UndatedLabel == <<"hizuke-misettei">>

(* A variant of StripDashes that keeps the dashes. *)
KeepDashes(key) == key

(* str.replace("-", "") *)
StripDashes(key) == SelectSeq(key, LAMBDA t : t # "-")

(* post_sort_key: timed posts first, by time then id; untimed ones by id. *)
(* A variant of post_sort_key that leaves the time out. *)
post_sort_key_untimed(post) == <<1, post.id>>

(* post_sort_key.  A time is the number of a zero-padded HH:MM string, whose
   order as a string is its order as a time; 0 is None. *)
post_sort_key(post) ==
    IF post.time # 0 THEN <<0, post.time, post.id>> ELSE <<1, post.id>>

sorted_posts(posts) ==
    Rows(SortedAsc([i \in 1..Len(posts) |->
                       [key |-> post_sort_key(posts[i]), row |-> posts[i]]]))

group_date_key(item) == IF item.date # <<>> THEN item.date ELSE Undated

RECURSIVE group_keys(_)
(* The date keys of a list in the order of their first occurrence. *)
group_keys(items) ==
    IF items = <<>> THEN <<>>
    ELSE LET rest == group_keys(Front(items))
             k == group_date_key(Last(items))
         IN  IF \E i \in 1..Len(rest) : rest[i] = k THEN rest ELSE Append(rest, k)

(* group_schedules_by_date *)
group_schedules_by_date(items) ==
    LET keys == group_keys(items)
        group(k) ==
            LET members == SelectSeq(items, LAMBDA it : group_date_key(it) = k)
                schedule_ids == [i \in 1..Len(members) |-> members[i].id]
            IN  [date_key |-> k,
                 date_label |-> IF k = Undated THEN UndatedLabel ELSE k,
                 items |-> members,
                 schedule_ids |-> schedule_ids,
                 timeline_schedule_id |->
                     IF schedule_ids # <<>> THEN schedule_ids[1] ELSE 0,
                 form_id |->
                     IF schedule_ids # <<>>
                     THEN StripDashes(k) \o <<"-", ToString(schedule_ids[1])>>
                     ELSE StripDashes(k)]
    IN  [i \in 1..Len(keys) |-> group(keys[i])]

(* The query of the view: the rows of the trip by date ascending (nulls
   last), then id descending. *)
schedule_query(trip) ==
    LET rows == SeqOfSet({r \in schedules : r.trip_id = trip})
        key(r) == <<IF parse_date(r.date) = 0 THEN DateMax + 1 ELSE parse_date(r.date),
                    0 - r.id>>
    IN  Rows(SortedAsc([i \in 1..Len(rows) |-> [key |-> key(rows[i]), row |-> rows[i]]]))

(* A variant of is_past without the test that the row has a date: a row
   without one compares as earlier than every day. *)
is_past_unguarded(row) == parse_date(row.date) < today

(* A variant of is_past that counts today as past. *)
is_past_inclusive(row) == parse_date(row.date) # 0 /\ parse_date(row.date) <= today

(* The row belongs to the past list: it has a date, before today. *)
is_past(row) == parse_date(row.date) # 0 /\ parse_date(row.date) < today

upcoming_sort_key(r) ==
    <<IF parse_date(r.date) # 0 THEN parse_date(r.date) ELSE DateMax, r.id>>

past_sort_key(r) ==
    <<IF parse_date(r.date) # 0 THEN parse_date(r.date) ELSE DateMin, r.id>>

sort_upcoming(rows) ==
    Rows(SortedAsc([i \in 1..Len(rows) |->
                       [key |-> upcoming_sort_key(rows[i]), row |-> rows[i]]]))

(* A variant of sort_past without reverse=True. *)
sort_past_ascending(rows) ==
    Rows(SortedAsc([i \in 1..Len(rows) |->
                       [key |-> past_sort_key(rows[i]), row |-> rows[i]]]))

sort_past(rows) ==
    Rows(SortedDesc([i \in 1..Len(rows) |->
                        [key |-> past_sort_key(rows[i]), row |-> rows[i]]]))

(* build_schedule_photo_entry *)
build_schedule_photo_entry(photo_row) ==
    LET raw_url == photo_row.photo_url
        ref == IF raw_url[1] = "google-ref:" THEN raw_url[2]
               ELSE extract_photo_reference(raw_url)
    IN  [id |-> photo_row.id,
         url |-> raw_url,
         display_url |-> IF ref # 0 /\ api_key # "" THEN <<"maps-photo:", ref>>
                         ELSE raw_url,
         is_google |-> ref # 0 \/ raw_url[1] = "google-host:"]

(* A variant of dedupe_photos that keeps every entry. *)
every_photo(photos) == photos

RECURSIVE dedupe_photos(_)
(* The deduped dict of the view as the list of its values: one entry per
   URL at the place of the first, an entry without an id giving way to one
   that has an id; an entry without a URL is skipped. *)
dedupe_photos(photos) ==
    IF photos = <<>> THEN <<>>
    ELSE LET deduped == dedupe_photos(Front(photos))
             photo == Last(photos)
             at == {i \in 1..Len(deduped) : deduped[i].url = photo.url}
         IN  IF photo.url = NullUrl THEN deduped
             ELSE IF at = {} THEN Append(deduped, photo)
             ELSE LET i == CHOOSE j \in at : TRUE
                  IN  IF deduped[i].id = 0 /\ photo.id # 0
                      THEN [deduped EXCEPT ![i] = photo]
                      ELSE deduped

(* A variant of excess_photo_ids that counts from the third entry. *)
excess_from_third(ordered) ==
    IF Len(ordered) > PhotoCap
    THEN {ordered[i].id : i \in {j \in PhotoCap..Len(ordered) : ordered[j].id # 0}}
    ELSE {}

(* ordered[:3] and the ids of ordered[3:] that the view deletes. *)
capped_photos(ordered) == Take(ordered, PhotoCap)

excess_photo_ids(ordered) ==
    IF Len(ordered) > PhotoCap
    THEN {ordered[i].id : i \in {j \in (PhotoCap + 1)..Len(ordered) : ordered[j].id # 0}}
    ELSE {}

(* The photo entries of one schedule in the view, read in ascending id. *)
schedule_photo_entries(schedule_id, schedule_ids) ==
    LET photos == SeqOfSet({p \in schedule_photos :
                               p.schedule_id \in schedule_ids
                               /\ p.schedule_id = schedule_id})
    IN  [i \in 1..Len(photos) |-> build_schedule_photo_entry(photos[i])]

(* posts_by_date: per date key the posts of the last group of that key. *)
posts_by_date_of(groups, posts_by_schedule) ==
    LET group_posts(g) ==
            LET ids == SelectSeq(g.schedule_ids,
                                 LAMBDA id : id \in DOMAIN posts_by_schedule)
                RECURSIVE extend(_)
                extend(k) == IF k = 0 THEN <<>>
                             ELSE extend(k - 1) \o posts_by_schedule[ids[k]]
            IN  sorted_posts(extend(Len(ids)))
        last_of(k) == CHOOSE i \in 1..Len(groups) :
                          /\ groups[i].date_key = k
                          /\ \A j \in (i + 1)..Len(groups) : groups[j].date_key # k
    IN  [k \in {groups[i].date_key : i \in 1..Len(groups)} |->
            group_posts(groups[last_of(k)])]

(* GET /schedule *)
ScheduleGet(c) ==
    LET trip == get_active_trip(c)
        rows == schedule_query(trip)
        upcoming == sort_upcoming(SelectSeq(rows, LAMBDA r : ~is_past(r)))
        past == sort_past(SelectSeq(rows, LAMBDA r : is_past(r)))
        schedule_ids == {r.id : r \in Range(upcoming \o past)}
        with_photos == {id \in schedule_ids :
                            \E p \in schedule_photos : p.schedule_id = id}
        ordered(id) == dedupe_photos(schedule_photo_entries(id, schedule_ids))
        excess_ids == UNION {excess_photo_ids(ordered(id)) : id \in with_photos}
        posts == {p \in schedule_posts : p.schedule_id \in schedule_ids}
        with_posts == {p.schedule_id : p \in posts}
        posts_by_schedule ==
            [id \in with_posts |->
                sorted_posts(SeqOfSet({p \in posts : p.schedule_id = id}))]
        post_photos == {q \in schedule_post_photos : q.post_id \in {p.id : p \in posts}}
        upcoming_groups == group_schedules_by_date(upcoming)
        past_groups == group_schedules_by_date(past)
    IN  IF trip = 0
        THEN /\ response' = Redirect("trips")
             /\ UNCHANGED <<trips, place_tables, schedule_tables, hotel_tables, memos,
                            flights, next_id, uploads, today, trip_settings, cookie, inflight>>
        ELSE /\ schedule_photos' = {p \in schedule_photos : p.id \notin excess_ids}
             /\ response' =
                    [template |-> "schedule.html",
                     trip |-> trip,
                     upcoming |-> upcoming,
                     past |-> past,
                     upcoming_groups |-> upcoming_groups,
                     past_groups |-> past_groups,
                     photos_by_schedule |->
                         [id \in with_photos |-> capped_photos(ordered(id))],
                     posts_by_schedule |-> posts_by_schedule,
                     posts_by_date |->
                         posts_by_date_of(upcoming_groups \o past_groups,
                                          posts_by_schedule),
                     post_photos_by_post |->
                         [id \in {q.post_id : q \in post_photos} |->
                             SeqOfSet({q \in post_photos : q.post_id = id})]]
             /\ UNCHANGED <<trips, place_tables, schedules, schedule_posts,
                            schedule_post_photos, hotel_tables, memos, flights,
                            next_id, uploads, today, trip_settings, cookie, inflight>>

-----------------------------------------------------------------------------
(* Places: POST and GET /places, update, delete, photo delete. *)

(* The five categories; "ja:" marks the Japanese word. *)
PLACE_CATEGORIES == {"ja:spot", "ja:restaurant", "ja:izakaya", "ja:cafe", "ja:other"}

LEGACY_CATEGORY_MAP ==
    [k \in {"spot", "restaurant", "izakaya", "cafe"} |->
        CASE k = "spot" -> "ja:spot"
          [] k = "restaurant" -> "ja:restaurant"
          [] k = "izakaya" -> "ja:izakaya"
          [] k = "cafe" -> "ja:cafe"]

(* A variant of normalize_category that compares the value as it is. *)
normalize_category_exact(value) ==
    IF value \in PLACE_CATEGORIES THEN value
    ELSE IF value \in DOMAIN LEGACY_CATEGORY_MAP THEN LEGACY_CATEGORY_MAP[value]
    ELSE "ja:other"

(* A variant of normalize_category that returns its input. *)
category_as_given(value) == value

(* normalize_category *)
normalize_category(value) ==
    IF value = "" THEN "ja:other"
    ELSE LET v == Strip(value)
         IN  IF v \in PLACE_CATEGORIES THEN v
             ELSE IF Lower(v) \in DOMAIN LEGACY_CATEGORY_MAP
                  THEN LEGACY_CATEGORY_MAP[Lower(v)]
                  ELSE "ja:other"

place_photo_rows(place_id, urls, first_id) ==
    {[id |-> first_id + i - 1, place_id |-> place_id, photo_url |-> urls[i]] :
        i \in 1..Len(urls)}

(* POST /places *)
PlacesPost(c, form) ==
    LET trip == get_active_trip(c)
        name == Strip(form.name)
        notes == Strip(form.notes)
        place_id == next_id.places
        all_photo_urls == form_photo_urls(form)
        row == [id |-> place_id, trip_id |-> trip,
                name |-> IF name # "" THEN name ELSE "ikitai-basho",
                category |-> normalize_category(Strip(form.category)),
                notes |-> notes, address |-> form.address,
                photo_url |-> normalize_photo_url(form.photo_url)]
    IN  IF trip = 0
        THEN /\ response' = Redirect("trips")
             /\ UNCHANGED <<trips, place_tables, schedule_tables, hotel_tables, memos,
                            flights, next_id, uploads, today, trip_settings, cookie, inflight>>
        ELSE IF name # "" \/ notes # "" \/ form.address # ""
        THEN /\ places' = places \cup {row}
             /\ place_photos' = place_photos \cup
                    place_photo_rows(place_id, all_photo_urls, next_id.place_photos)
             /\ next_id' = [next_id EXCEPT !.places = @ + 1,
                                           !.place_photos = @ + Len(all_photo_urls)]
             /\ uploads' = uploads + accepted_count(form.photo_files)
             /\ response' = Redirect("places")
             /\ UNCHANGED <<trips, schedule_tables, hotel_tables, memos, flights, today, trip_settings, cookie, inflight>>
        ELSE /\ response' = Redirect("places")
             /\ UNCHANGED <<trips, place_tables, schedule_tables, hotel_tables, memos,
                            flights, next_id, uploads, today, trip_settings, cookie, inflight>>

(* POST /places/<place_id>/update *)
PlacesUpdate(c, place_id, form) ==
    LET trip == get_active_trip(c)
        name == Strip(form.name)
        notes == Strip(form.notes)
        all_photo_urls == form_photo_urls(form)
        updated(r) == [id |-> r.id, trip_id |-> r.trip_id,
                       name |-> IF name # "" THEN name ELSE "ikitai-basho",
                       category |-> normalize_category(Strip(form.category)),
                       notes |-> notes, address |-> form.address,
                       photo_url |-> normalize_photo_url(form.photo_url)]
    IN  IF trip = 0
        THEN /\ response' = Redirect("trips")
             /\ UNCHANGED <<trips, place_tables, schedule_tables, hotel_tables, memos,
                            flights, next_id, uploads, today, trip_settings, cookie, inflight>>
        ELSE IF name # "" \/ notes # "" \/ form.address # ""
        THEN /\ places' = {IF r.id = place_id /\ r.trip_id = trip
                           THEN updated(r) ELSE r : r \in places}
             /\ place_photos' = place_photos \cup
                    place_photo_rows(place_id, all_photo_urls, next_id.place_photos)
             /\ next_id' = [next_id EXCEPT !.place_photos = @ + Len(all_photo_urls)]
             /\ uploads' = uploads + accepted_count(form.photo_files)
             /\ response' = Redirect("places")
             /\ UNCHANGED <<trips, schedule_tables, hotel_tables, memos, flights, today, trip_settings, cookie, inflight>>
        ELSE /\ response' = Redirect("places")
             /\ UNCHANGED <<trips, place_tables, schedule_tables, hotel_tables, memos,
                            flights, next_id, uploads, today, trip_settings, cookie, inflight>>

(* POST /places/<place_id>/delete *)
PlacesDelete(c, place_id) ==
    LET trip == get_active_trip(c)
    IN  IF trip = 0
        THEN /\ response' = Redirect("trips")
             /\ UNCHANGED <<trips, place_tables, schedule_tables, hotel_tables, memos,
                            flights, next_id, uploads, today, trip_settings, cookie, inflight>>
        ELSE /\ places' = {r \in places : ~(r.id = place_id /\ r.trip_id = trip)}
             /\ response' = Redirect("places")
             /\ UNCHANGED <<trips, place_photos, schedule_tables, hotel_tables, memos,
                            flights, next_id, uploads, today, trip_settings, cookie, inflight>>

(* POST /places/photo/delete; photo_id and place_id are 0 and photo_url is
   NullUrl when the form does not give them. *)
PlacesPhotoDelete(c, photo_id, place_id, photo_url) ==
    LET trip == get_active_trip(c)
        by_id == IF photo_id # 0 THEN {p \in place_photos : p.id = photo_id} ELSE {}
        by_pair == IF place_id # 0 /\ photo_url # NullUrl
                   THEN {p \in place_photos :
                            p.place_id = place_id /\ p.photo_url = photo_url}
                   ELSE {}
    IN  IF trip = 0
        THEN /\ response' = Redirect("trips")
             /\ UNCHANGED <<trips, place_tables, schedule_tables, hotel_tables, memos,
                            flights, next_id, uploads, today, trip_settings, cookie, inflight>>
        ELSE /\ place_photos' = (place_photos \ by_id) \ by_pair
             /\ places' =
                    IF place_id # 0 /\ photo_url # NullUrl
                    THEN {IF r.id = place_id /\ r.photo_url = photo_url
                          THEN [r EXCEPT !.photo_url = NullUrl] ELSE r : r \in places}
                    ELSE places
             /\ response' = Redirect("places")
             /\ UNCHANGED <<trips, schedule_tables, hotel_tables, memos, flights,
                            next_id, uploads, today, trip_settings, cookie, inflight>>

RECURSIVE Reverse(_)
Reverse(s) == IF s = <<>> THEN <<>> ELSE <<Last(s)>> \o Reverse(Front(s))

(* The photo list of one place in GET /places: the rows in ascending id as
   {id, url}, deduped by URL. *)
place_photo_list(place_id) ==
    LET photos == SeqOfSet({p \in place_photos : p.place_id = place_id})
    IN  dedupe_photos([i \in 1..Len(photos) |->
                          [id |-> photos[i].id, url |-> photos[i].photo_url]])

(* GET /places?category=... *)
PlacesGet(c, category) ==
    LET trip == get_active_trip(c)
        all_rows == Reverse(SeqOfSet({r \in places : r.trip_id = trip}))
        rows == IF category # "all"
                THEN SelectSeq(all_rows,
                               LAMBDA r : normalize_category(r.category) = category)
                ELSE all_rows
        place_ids == {r.id : r \in Range(rows)}
        with_photos == {id \in place_ids : \E p \in place_photos : p.place_id = id}
    IN  IF trip = 0
        THEN /\ response' = Redirect("trips")
             /\ UNCHANGED <<trips, place_tables, schedule_tables, hotel_tables, memos,
                            flights, next_id, uploads, today, trip_settings, cookie, inflight>>
        ELSE /\ response' =
                    [template |-> "places.html",
                     trip |-> trip,
                     places |-> [i \in 1..Len(rows) |->
                                    [row |-> rows[i],
                                     category_display |->
                                         normalize_category(rows[i].category)]],
                     photos_by_place |-> [id \in with_photos |-> place_photo_list(id)],
                     active_category |-> category]
             /\ UNCHANGED <<trips, place_tables, schedule_tables, hotel_tables, memos,
                            flights, next_id, uploads, today, trip_settings, cookie, inflight>>

-----------------------------------------------------------------------------
(* Diary posts of a schedule. *)

post_photo_rows(post_id, urls, first_id) ==
    {[id |-> first_id + i - 1, post_id |-> post_id, photo_url |-> urls[i]] :
        i \in 1..Len(urls)}

RECURSIVE post_insert_entries(_, _, _)
(* The loop of POST /schedule/<id>/posts: per entry one post row, then its
   photo rows.  st is [schedule_posts, schedule_post_photos, post_id, pid,
   uploads]. *)
post_insert_entries(entries, schedule_id, st) ==
    IF entries = <<>> THEN st
    ELSE LET entry == Head(entries)
             post == [id |-> st.post_id, schedule_id |-> schedule_id,
                      time |-> entry.time, title |-> entry.title, body |-> entry.body]
             photo_urls == upload_place_photos(entry.files, st.uploads)
         IN  post_insert_entries(Tail(entries), schedule_id,
                 [schedule_posts |-> st.schedule_posts \cup {post},
                  schedule_post_photos |-> st.schedule_post_photos \cup
                      post_photo_rows(st.post_id, photo_urls, st.pid),
                  post_id |-> st.post_id + 1,
                  pid |-> st.pid + Len(photo_urls),
                  uploads |-> st.uploads + Len(photo_urls)])

(* POST /schedule/<schedule_id>/posts; post_entries is what
   collect_post_entries returns. *)
SchedulePostCreate(c, schedule_id, post_entries) ==
    LET trip == get_active_trip(c)
        st == post_insert_entries(post_entries, schedule_id,
                  [schedule_posts |-> schedule_posts,
                   schedule_post_photos |-> schedule_post_photos,
                   post_id |-> next_id.schedule_posts,
                   pid |-> next_id.schedule_post_photos,
                   uploads |-> uploads])
    IN  IF trip = 0
        THEN /\ response' = Redirect("trips")
             /\ UNCHANGED <<trips, place_tables, schedule_tables, hotel_tables, memos,
                            flights, next_id, uploads, today, trip_settings, cookie, inflight>>
        ELSE /\ schedule_posts' = st.schedule_posts
             /\ schedule_post_photos' = st.schedule_post_photos
             /\ next_id' = [next_id EXCEPT !.schedule_posts = st.post_id,
                                           !.schedule_post_photos = st.pid]
             /\ uploads' = st.uploads
             /\ response' = Redirect("schedule")
             /\ UNCHANGED <<trips, place_tables, schedules, schedule_photos,
                            hotel_tables, memos, flights, today, trip_settings, cookie, inflight>>

(* POST /schedule/post/<post_id>/delete: the post's photo rows, then the post. *)
SchedulePostDelete(c, post_id) ==
    LET trip == get_active_trip(c)
    IN  IF trip = 0
        THEN /\ response' = Redirect("trips")
             /\ UNCHANGED <<trips, place_tables, schedule_tables, hotel_tables, memos,
                            flights, next_id, uploads, today, trip_settings, cookie, inflight>>
        ELSE /\ schedule_post_photos' =
                    {q \in schedule_post_photos : q.post_id # post_id}
             /\ schedule_posts' = {p \in schedule_posts : p.id # post_id}
             /\ response' = Redirect("schedule")
             /\ UNCHANGED <<trips, place_tables, schedules, schedule_photos,
                            hotel_tables, memos, flights, next_id, uploads, today, trip_settings, cookie, inflight>>

(* POST /schedule/post/photo/delete *)
SchedulePostPhotoDelete(c, photo_id, post_id, photo_url) ==
    LET trip == get_active_trip(c)
        by_id == IF photo_id # 0
                 THEN {q \in schedule_post_photos : q.id = photo_id} ELSE {}
        by_pair == IF post_id # 0 /\ photo_url # NullUrl
                   THEN {q \in schedule_post_photos :
                            q.post_id = post_id /\ q.photo_url = photo_url}
                   ELSE {}
    IN  IF trip = 0
        THEN /\ response' = Redirect("trips")
             /\ UNCHANGED <<trips, place_tables, schedule_tables, hotel_tables, memos,
                            flights, next_id, uploads, today, trip_settings, cookie, inflight>>
        ELSE /\ schedule_post_photos' = (schedule_post_photos \ by_id) \ by_pair
             /\ response' = Redirect("schedule")
             /\ UNCHANGED <<trips, place_tables, schedules, schedule_photos,
                            schedule_posts, hotel_tables, memos, flights, next_id,
                            uploads, today, trip_settings, cookie, inflight>>

-----------------------------------------------------------------------------
(* Hotels. *)

hotel_photo_rows(hotel_id, urls, first_id) ==
    {[id |-> first_id + i - 1, hotel_id |-> hotel_id, photo_url |-> urls[i]] :
        i \in 1..Len(urls)}

(* POST /hotels *)
HotelsPost(c, form) ==
    LET trip == get_active_trip(c)
        name == Strip(form.name)
        address == Strip(form.address)
        notes == Strip(form.notes)
        hotel_id == next_id.hotels
        photo_urls == upload_place_photos(form.photo_files, uploads)
        row == [id |-> hotel_id, trip_id |-> trip,
                name |-> IF name # "" THEN name ELSE "hoteru",
                address |-> address, notes |-> notes]
    IN  IF trip = 0
        THEN /\ response' = Redirect("trips")
             /\ UNCHANGED <<trips, place_tables, schedule_tables, hotel_tables, memos,
                            flights, next_id, uploads, today, trip_settings, cookie, inflight>>
        ELSE IF name # "" \/ address # "" \/ notes # ""
        THEN /\ hotels' = hotels \cup {row}
             /\ hotel_photos' = hotel_photos \cup
                    hotel_photo_rows(hotel_id, photo_urls, next_id.hotel_photos)
             /\ next_id' = [next_id EXCEPT !.hotels = @ + 1,
                                           !.hotel_photos = @ + Len(photo_urls)]
             /\ uploads' = uploads + Len(photo_urls)
             /\ response' = Redirect("hotels")
             /\ UNCHANGED <<trips, place_tables, schedule_tables, memos, flights, today, trip_settings, cookie, inflight>>
        ELSE /\ response' = Redirect("hotels")
             /\ UNCHANGED <<trips, place_tables, schedule_tables, hotel_tables, memos,
                            flights, next_id, uploads, today, trip_settings, cookie, inflight>>

(* POST /hotels/<hotel_id>/update *)
HotelsUpdate(c, hotel_id, form) ==
    LET trip == get_active_trip(c)
        name == Strip(form.name)
        address == Strip(form.address)
        notes == Strip(form.notes)
        photo_urls == upload_place_photos(form.photo_files, uploads)
        updated(r) == [id |-> r.id, trip_id |-> r.trip_id,
                       name |-> IF name # "" THEN name ELSE "hoteru",
                       address |-> address, notes |-> notes]
    IN  IF trip = 0
        THEN /\ response' = Redirect("trips")
             /\ UNCHANGED <<trips, place_tables, schedule_tables, hotel_tables, memos,
                            flights, next_id, uploads, today, trip_settings, cookie, inflight>>
        ELSE IF name # "" \/ address # "" \/ notes # ""
        THEN /\ hotels' = {IF r.id = hotel_id /\ r.trip_id = trip
                           THEN updated(r) ELSE r : r \in hotels}
             /\ hotel_photos' = hotel_photos \cup
                    hotel_photo_rows(hotel_id, photo_urls, next_id.hotel_photos)
             /\ next_id' = [next_id EXCEPT !.hotel_photos = @ + Len(photo_urls)]
             /\ uploads' = uploads + Len(photo_urls)
             /\ response' = Redirect("hotels")
             /\ UNCHANGED <<trips, place_tables, schedule_tables, memos, flights, today, trip_settings, cookie, inflight>>
        ELSE /\ response' = Redirect("hotels")
             /\ UNCHANGED <<trips, place_tables, schedule_tables, hotel_tables, memos,
                            flights, next_id, uploads, today, trip_settings, cookie, inflight>>

(* POST /hotels/<hotel_id>/delete *)
HotelsDelete(c, hotel_id) ==
    LET trip == get_active_trip(c)
    IN  IF trip = 0
        THEN /\ response' = Redirect("trips")
             /\ UNCHANGED <<trips, place_tables, schedule_tables, hotel_tables, memos,
                            flights, next_id, uploads, today, trip_settings, cookie, inflight>>
        ELSE /\ hotels' = {r \in hotels : ~(r.id = hotel_id /\ r.trip_id = trip)}
             /\ response' = Redirect("hotels")
             /\ UNCHANGED <<trips, place_tables, schedule_tables, hotel_photos, memos,
                            flights, next_id, uploads, today, trip_settings, cookie, inflight>>

(* POST /hotels/photo/delete; photo_id and hotel_id are 0 when the form does
   not give them. *)
HotelsPhotoDelete(c, photo_id, hotel_id) ==
    LET trip == get_active_trip(c)
        by_id == IF photo_id # 0 THEN {p \in hotel_photos : p.id = photo_id} ELSE {}
        by_hotel == IF hotel_id # 0
                    THEN {p \in hotel_photos : p.hotel_id = hotel_id} ELSE {}
    IN  IF trip = 0
        THEN /\ response' = Redirect("trips")
             /\ UNCHANGED <<trips, place_tables, schedule_tables, hotel_tables, memos,
                            flights, next_id, uploads, today, trip_settings, cookie, inflight>>
        ELSE /\ hotel_photos' = (hotel_photos \ by_id) \ by_hotel
             /\ response' = Redirect("hotels")
             /\ UNCHANGED <<trips, place_tables, schedule_tables, hotels, memos,
                            flights, next_id, uploads, today, trip_settings, cookie, inflight>>

-----------------------------------------------------------------------------
(* Memos and flights. *)

(* POST /memo *)
MemoPost(c, form_body) ==
    LET trip == get_active_trip(c)
        body == Strip(form_body)
    IN  IF trip = 0
        THEN /\ response' = Redirect("trips")
             /\ UNCHANGED <<trips, place_tables, schedule_tables, hotel_tables, memos,
                            flights, next_id, uploads, today, trip_settings, cookie, inflight>>
        ELSE IF body # ""
        THEN /\ memos' = memos \cup {[id |-> next_id.memos, trip_id |-> trip,
                                      body |-> body]}
             /\ next_id' = [next_id EXCEPT !.memos = @ + 1]
             /\ response' = Redirect("memo")
             /\ UNCHANGED <<trips, place_tables, schedule_tables, hotel_tables,
                            flights, uploads, today, trip_settings, cookie, inflight>>
        ELSE /\ response' = Redirect("memo")
             /\ UNCHANGED <<trips, place_tables, schedule_tables, hotel_tables, memos,
                            flights, next_id, uploads, today, trip_settings, cookie, inflight>>

(* POST /memo/<memo_id>/delete *)
MemoDelete(c, memo_id) ==
    LET trip == get_active_trip(c)
    IN  IF trip = 0
        THEN /\ response' = Redirect("trips")
             /\ UNCHANGED <<trips, place_tables, schedule_tables, hotel_tables, memos,
                            flights, next_id, uploads, today, trip_settings, cookie, inflight>>
        ELSE /\ memos' = {r \in memos : ~(r.id = memo_id /\ r.trip_id = trip)}
             /\ response' = Redirect("memo")
             /\ UNCHANGED <<trips, place_tables, schedule_tables, hotel_tables,
                            flights, next_id, uploads, today, trip_settings, cookie, inflight>>

(* The eleven fields of a flight form; the two times are not stripped. *)
FlightFields == {"airline", "flight_no", "depart_airport", "depart_at",
                 "arrive_airport", "arrive_at", "reservation_code", "seat",
                 "terminal", "gate", "notes"}

flight_payload(form) ==
    [k \in FlightFields |->
        IF k \in {"depart_at", "arrive_at"} THEN form[k] ELSE Strip(form[k])]

(* POST /flights *)
FlightsPost(c, form) ==
    LET trip == get_active_trip(c)
        payload == flight_payload(form)
        has_any == \E k \in FlightFields : payload[k] # ""
    IN  IF trip = 0
        THEN /\ response' = Redirect("trips")
             /\ UNCHANGED <<trips, place_tables, schedule_tables, hotel_tables, memos,
                            flights, next_id, uploads, today, trip_settings, cookie, inflight>>
        ELSE IF has_any
        THEN /\ flights' = flights \cup {[id |-> next_id.flights, trip_id |-> trip,
                                          payload |-> payload]}
             /\ next_id' = [next_id EXCEPT !.flights = @ + 1]
             /\ response' = Redirect("flights")
             /\ UNCHANGED <<trips, place_tables, schedule_tables, hotel_tables, memos,
                            uploads, today, trip_settings, cookie, inflight>>
        ELSE /\ response' = Redirect("flights")
             /\ UNCHANGED <<trips, place_tables, schedule_tables, hotel_tables, memos,
                            flights, next_id, uploads, today, trip_settings, cookie, inflight>>

(* POST /flights/<flight_id>/update *)
FlightsUpdate(c, flight_id, form) ==
    LET trip == get_active_trip(c)
        payload == flight_payload(form)
        has_any == \E k \in FlightFields : payload[k] # ""
    IN  IF trip = 0
        THEN /\ response' = Redirect("trips")
             /\ UNCHANGED <<trips, place_tables, schedule_tables, hotel_tables, memos,
                            flights, next_id, uploads, today, trip_settings, cookie, inflight>>
        ELSE IF has_any
        THEN /\ flights' = {IF r.id = flight_id /\ r.trip_id = trip
                            THEN [r EXCEPT !.payload = payload] ELSE r : r \in flights}
             /\ response' = Redirect("flights")
             /\ UNCHANGED <<trips, place_tables, schedule_tables, hotel_tables, memos,
                            next_id, uploads, today, trip_settings, cookie, inflight>>
        ELSE /\ response' = Redirect("flights")
             /\ UNCHANGED <<trips, place_tables, schedule_tables, hotel_tables, memos,
                            flights, next_id, uploads, today, trip_settings, cookie, inflight>>

(* POST /flights/<flight_id>/delete *)
FlightsDelete(c, flight_id) ==
    LET trip == get_active_trip(c)
    IN  IF trip = 0
        THEN /\ response' = Redirect("trips")
             /\ UNCHANGED <<trips, place_tables, schedule_tables, hotel_tables, memos,
                            flights, next_id, uploads, today, trip_settings, cookie, inflight>>
        ELSE /\ flights' = {r \in flights : ~(r.id = flight_id /\ r.trip_id = trip)}
             /\ response' = Redirect("flights")
             /\ UNCHANGED <<trips, place_tables, schedule_tables, hotel_tables, memos,
                            next_id, uploads, today, trip_settings, cookie, inflight>>

-----------------------------------------------------------------------------
(* The store after the trips were created, and the inputs of the requests. *)

Tables == {"trips", "places", "place_photos", "schedules", "schedule_photos",
           "schedule_posts", "schedule_post_photos", "hotels", "hotel_photos",
           "memos", "flights"}

NoResponse == [template |-> "none"]

(* The requests that may run at the same time, and none of them running. *)
Requests == 1..2

Idle == [pc |-> "idle"]

NoRequests == [r \in Requests |-> Idle]

EmptyTables ==
    /\ trips = 1..NumTrips
    /\ places = {} /\ place_photos = {}
    /\ schedules = {} /\ schedule_photos = {}
    /\ schedule_posts = {} /\ schedule_post_photos = {}
    /\ hotels = {} /\ hotel_photos = {}
    /\ memos = {} /\ flights = {}
    /\ next_id = [t \in Tables |-> IF t = "trips" THEN NumTrips + 1 ELSE 1]
    /\ uploads = 0
    /\ trip_settings = {}
    /\ cookie = NoCookie
    /\ inflight = NoRequests

EmptyStore == EmptyTables /\ response = NoResponse

(* The cookies a client may send: none, "0", a trip's id, an unknown id. *)
Cookies == {NoCookie} \cup (0..(NumTrips + 1))

Dates == {NullDate} \cup {IsoDate(d) : d \in 1..DateMax}

Refs == 1..NumRefs

GoodFile == [filename |-> <<"photo", ".", "JPG">>, size |-> 1]

BadFile == [filename |-> <<"notes", ".", "txt">>, size |-> 1]

ScheduleForm(title, date, photo_url, refs, files) ==
    [title |-> title, date |-> date, detail |-> "", address |-> "",
     photo_url |-> photo_url, photo_refs |-> refs, photo_urls |-> <<>>,
     photo_files |-> files]

(* The rows of a trip in the store. *)
TripSchedules(trip) == {r \in schedules : r.trip_id = trip}

PhotosOf(schedule_id) == {p \in schedule_photos : p.schedule_id = schedule_id}

IsScheduleView == response.template = "schedule.html"

-----------------------------------------------------------------------------
(* The schedule list under requests that create, move and delete schedules. *)

ViewForms == {ScheduleForm("t", d, NullUrl, <<>>, <<>>) : d \in Dates}

InitView == EmptyStore /\ today \in 1..DateMax

NextView ==
    \/ \E c \in Cookies, e \in ViewForms :
           /\ next_id.schedules <= MaxScheduleId
           /\ SchedulePost(c, <<e>>)
    \/ \E c \in Cookies, e1 \in ViewForms, e2 \in ViewForms :
           /\ next_id.schedules + 1 <= MaxScheduleId
           /\ SchedulePost(c, <<e1, e2>>)
    \/ \E c \in Cookies, id \in 1..MaxScheduleId, f \in ViewForms :
           ScheduleUpdate(c, id, f)
    \/ \E c \in Cookies, id \in 1..MaxScheduleId : ScheduleDelete(c, id)
    \/ \E c \in Cookies : ScheduleGet(c)

SpecView == InitView /\ [][NextView]_vars

Day(row) == parse_date(row.date)

(* C5: in the schedule view every schedule row of the active trip is in
   exactly one of the lists upcoming and past, and it is in past exactly when
   it has a date and the date is before today. *)
C5_Partition ==
    IsScheduleView =>
        LET rows == TripSchedules(response.trip)
            up == response.upcoming
            pa == response.past
        IN  /\ Range(up) \cup Range(pa) = rows
            /\ Range(up) \cap Range(pa) = {}
            /\ Len(up) + Len(pa) = Cardinality(rows)
            /\ \A r \in rows :
                   r \in Range(pa) <=> (r.date # NullDate /\ Day(r) < today)
            /\ \A r \in rows :
                   (r.date = NullDate \/ Day(r) >= today) => r \in Range(up)

C5_Witness ==
    /\ IsScheduleView
    /\ \E r \in Range(response.past) : Day(r) < today
    /\ \E r \in Range(response.upcoming) : r.date = NullDate
    /\ \E r \in Range(response.upcoming) : Day(r) = today

(* C6 as claimed: the past list is in descending date, and rows of the same
   date are in ascending id. *)
C6_PastAscendingIds ==
    IsScheduleView =>
        LET pa == response.past
        IN  \A i, j \in 1..Len(pa) :
                i < j => \/ Day(pa[i]) > Day(pa[j])
                         \/ (Day(pa[i]) = Day(pa[j]) /\ pa[i].id < pa[j].id)

(* C6, amended: the past list is in descending date, and rows of the same
   date are in descending id. *)
C6_PastDescending ==
    IsScheduleView =>
        LET pa == response.past
        IN  \A i, j \in 1..Len(pa) :
                i < j => \/ Day(pa[i]) > Day(pa[j])
                         \/ (Day(pa[i]) = Day(pa[j]) /\ pa[i].id > pa[j].id)

C6_Witness ==
    /\ IsScheduleView
    /\ Len(response.past) = 3
    /\ Day(response.past[1]) > Day(response.past[2])
    /\ Day(response.past[2]) = Day(response.past[3])

(* C7: the upcoming list is in ascending date with the rows without a date
   after every dated row, and rows of the same date (or all without a date)
   are in ascending id. *)
C7_UpcomingNullsLast ==
    IsScheduleView =>
        LET up == response.upcoming
        IN  \A i, j \in 1..Len(up) :
                i < j => \/ (up[i].date # NullDate /\ up[j].date = NullDate)
                         \/ (up[i].date # NullDate /\ up[j].date # NullDate
                             /\ Day(up[i]) < Day(up[j]))
                         \/ (up[i].date = up[j].date /\ up[i].id < up[j].id)

-----------------------------------------------------------------------------
(* The photo trim of the schedule list under requests that attach photos. *)

MaxPhotoSchedules == 2

PhotoForms ==
    {ScheduleForm("t", NullDate, NullUrl, refs, files) :
        refs \in {<<>>} \cup {<<r>> : r \in Refs},
        files \in {<<>>, <<GoodFile>>, <<BadFile, GoodFile, GoodFile>>}}

InitPhotos == EmptyStore /\ today = 1

PhotoBounds ==
    /\ next_id'.schedules <= MaxPhotoSchedules + 1
    /\ next_id'.schedule_photos <= MaxSchedulePhotoId + 1
    /\ uploads' <= MaxUploads

(* The cookies that name a trip. *)
TripCookies == 1..NumTrips

NextPhotos ==
    \/ \E c \in TripCookies, e \in PhotoForms : SchedulePost(c, <<e>>) /\ PhotoBounds
    \/ \E c \in TripCookies, id \in 1..MaxPhotoSchedules, f \in PhotoForms :
           ScheduleUpdate(c, id, f) /\ PhotoBounds
    \/ \E c \in TripCookies : ScheduleGet(c)

SpecPhotos == InitPhotos /\ [][NextPhotos]_vars

PhotosOfNext(schedule_id) == {p \in schedule_photos' : p.schedule_id = schedule_id}

Ids(rows) == {p.id : p \in rows}

Min(a, b) == IF a < b THEN a ELSE b

(* A list-view fetch that finds an active trip. *)
ListFetch(c) == get_active_trip(c) # 0 /\ ScheduleGet(c)

(* Once the store no longer holds a photo id it has issued, it never holds
   it again. *)
PhotoIdsStayGone ==
    \A id \in 1..(next_id.schedule_photos - 1) :
        id \notin Ids(schedule_photos) => id \notin Ids(schedule_photos')

(* C1: a list-view fetch leaves every schedule of the trip that
   had n photo rows with exactly min(n, 3) rows, and removed rows stay gone. *)
C1_TrimToMin ==
    [][/\ \A c \in Cookies :
              ListFetch(c) =>
                  \A s \in TripSchedules(get_active_trip(c)) :
                      Cardinality(PhotosOfNext(s.id)) =
                          Min(Cardinality(PhotosOf(s.id)), PhotoCap)
       /\ PhotoIdsStayGone]_vars

(* The k lowest ids of a set of rows. *)
LowestIds(rows, k) == {p.id : p \in {q \in rows : Cardinality({r \in rows : r.id < q.id}) < k}}

ShownIds(shown) == {shown[i].id : i \in 1..Len(shown)}

Ascending(shown) == \A i, j \in 1..Len(shown) : i < j => shown[i].id < shown[j].id

(* C2: the photos shown for a schedule are its lowest-id rows in
   ascending id, and every row the fetch deletes has a greater id than every
   row it keeps. *)
C2_LowestRows ==
    [][\A c \in Cookies :
           ListFetch(c) =>
               \A s \in TripSchedules(get_active_trip(c)) :
                   PhotosOf(s.id) # {} =>
                       LET shown == response'.photos_by_schedule[s.id]
                       IN  /\ Ascending(shown)
                           /\ ShownIds(shown) = LowestIds(PhotosOf(s.id), PhotoCap)
                           /\ \A del \in PhotosOf(s.id) \ PhotosOfNext(s.id) :
                                  \A kept \in PhotosOfNext(s.id) : del.id > kept.id]_vars

-----------------------------------------------------------------------------
(* group_schedules_by_date on the lists of rows it may be given. *)

GroupDates == {NullDate, Undated} \cup {IsoDate(d) : d \in 1..(DateMax - 1)}

GroupRows == [id : 1..MaxGroupLen, date : GroupDates]

(* The lists of at most MaxGroupLen rows of distinct ids. *)
GroupInputs ==
    {items \in UNION {[1..n -> GroupRows] : n \in 0..MaxGroupLen} :
        \A i, j \in 1..Len(items) : i # j => items[i].id # items[j].id}

(* A list is handed to the function. *)
InitGroup ==
    /\ EmptyTables
    /\ today = 1
    /\ \E items \in GroupInputs : response = [template |-> "input", items |-> items]

(* The function is applied to the list. *)
GroupApply ==
    /\ response.template = "input"
    /\ response' = [template |-> "groups",
                    items |-> response.items,
                    groups |-> group_schedules_by_date(response.items)]
    /\ UNCHANGED <<trips, place_tables, schedule_tables, hotel_tables, memos,
                   flights, next_id, uploads, today, trip_settings, cookie, inflight>>

NextGroup == GroupApply

SpecGroup == InitGroup /\ [][NextGroup]_vars

(* The place of a row in a list of rows of distinct ids. *)
Pos(items, r) == CHOOSE i \in 1..Len(items) : items[i] = r

(* The form id of a group of the given date of which the first row has the
   given id: the date without its dashes, a dash, the id. *)
ExpectedFormId(date, id) ==
    IF date = NullDate \/ date = Undated
    THEN <<"undated", "-", ToString(id)>>
    ELSE <<date[1], date[3], date[5], "-", ToString(id)>>

(* C8: group_schedules_by_date puts every row of its input in exactly one
   group; every row without a date is in the one group keyed "undated";
   groups are in the order of the first occurrence of their date in the
   input and members in input order; the form id of a group is its date key
   without the dashes, a dash, and the id of its first row. *)
C8_Grouping ==
    response.template = "groups" =>
        LET items == response.items
            groups == response.groups
            G == 1..Len(groups)
            first(g) == Pos(items, groups[g].items[1])
        IN  /\ \A i \in 1..Len(items) :
                   Cardinality({g \in G : items[i] \in Range(groups[g].items)}) = 1
            /\ \A g \in G :
                   /\ groups[g].items # <<>>
                   /\ Range(groups[g].items) \subseteq Range(items)
                   /\ \A a, b \in 1..Len(groups[g].items) :
                          a < b => Pos(items, groups[g].items[a])
                                       < Pos(items, groups[g].items[b])
                   /\ \A a \in 1..Len(groups[g].items) :
                          groups[g].items[a].date =
                              (IF groups[g].date_key = Undated
                               THEN groups[g].items[a].date
                               ELSE groups[g].date_key)
                   /\ groups[g].form_id =
                          ExpectedFormId(groups[g].date_key, groups[g].items[1].id)
            /\ \A g, h \in G : g # h => groups[g].date_key # groups[h].date_key
            /\ \A i \in 1..Len(items) :
                   items[i].date = NullDate =>
                       \E g \in G : /\ groups[g].date_key = Undated
                                    /\ items[i] \in Range(groups[g].items)
            /\ \A g, h \in G : g < h => first(g) < first(h)

(* Three rows in two groups: the first and the last have no date and share
   the first group, the dated row between them is the second group. *)
C8_Witness ==
    /\ response.template = "groups"
    /\ Len(response.items) = 3
    /\ response.items[1].date = NullDate
    /\ response.items[2].date = IsoDate(1)
    /\ response.items[3].date = NullDate
    /\ Len(response.groups) = 2
    /\ Len(response.groups[1].items) = 2
    /\ response.groups[1].date_key = Undated

-----------------------------------------------------------------------------
(* Places under requests of clients of either trip. *)

PlaceForm(name, photo_url, refs) ==
    [name |-> name, notes |-> "", address |-> "", category |-> "cafe",
     photo_url |-> photo_url, photo_refs |-> refs, photo_urls |-> <<>>,
     photo_files |-> <<>>]

(* A raw Maps photo URL that carries reference r. *)
RawRefUrl(r) == <<"?photo_reference=", r>>

PlaceForms ==
    {PlaceForm(name, photo_url, refs) :
        name \in {"x", " "},
        photo_url \in {NullUrl} \cup {RawRefUrl(r) : r \in Refs},
        refs \in {<<>>} \cup {<<r>> : r \in Refs}}

PlaceUrls == {NullUrl} \cup {GoogleRef(r) : r \in Refs}

PlaceBounds ==
    /\ next_id'.places <= MaxPlaceId + 1
    /\ next_id'.place_photos <= MaxPlacePhotoId + 1

PlaceCategories == {"all", "ja:cafe"}

InitPlaces == EmptyStore /\ today = 1

NextPlaces ==
    \/ \E c \in Cookies, f \in PlaceForms : PlacesPost(c, f) /\ PlaceBounds
    \/ \E c \in Cookies, id \in 1..MaxPlaceId, f \in PlaceForms :
           PlacesUpdate(c, id, f) /\ PlaceBounds
    \/ \E c \in Cookies, id \in 1..MaxPlaceId : PlacesDelete(c, id)
    \/ \E c \in Cookies, photo_id \in 0..MaxPlacePhotoId, id \in 0..MaxPlaceId,
          url \in PlaceUrls : PlacesPhotoDelete(c, photo_id, id, url)
    \/ \E c \in Cookies, category \in PlaceCategories : PlacesGet(c, category)

SpecPlaces == InitPlaces /\ [][NextPlaces]_vars

(* A request of NextPlaces sent with cookie c. *)
PlacesRequest(c) ==
    \/ \E f \in PlaceForms : PlacesPost(c, f)
    \/ \E id \in 1..MaxPlaceId, f \in PlaceForms : PlacesUpdate(c, id, f)
    \/ \E id \in 1..MaxPlaceId : PlacesDelete(c, id)
    \/ \E photo_id \in 0..MaxPlacePhotoId, id \in 0..MaxPlaceId, url \in PlaceUrls :
           PlacesPhotoDelete(c, photo_id, id, url)
    \/ \E category \in PlaceCategories : PlacesGet(c, category)

(* The rows of a table that belong to another trip than the given one. *)
Foreign(table, trip) == {r \in table : r.trip_id # trip}

(* C3: a request executed with active trip T leaves every Place, Schedule,
   Memo, Hotel and Flight row of another trip as it was. *)
C3_OtherTripsUntouched ==
    [][\A c \in Cookies :
           (get_active_trip(c) # 0 /\ PlacesRequest(c)) =>
               LET T == get_active_trip(c)
               IN  /\ Foreign(places', T) = Foreign(places, T)
                   /\ Foreign(schedules', T) = Foreign(schedules, T)
                   /\ Foreign(memos', T) = Foreign(memos, T)
                   /\ Foreign(hotels', T) = Foreign(hotels, T)
                   /\ Foreign(flights', T) = Foreign(flights, T)]_vars

(* C4: every child row a request inserts names a parent row that exists
   and belongs to the active trip of the request. *)
C4_ChildOfActiveTrip ==
    [][\A c \in Cookies :
           (get_active_trip(c) # 0 /\ PlacesRequest(c)) =>
               LET T == get_active_trip(c)
                   OfTrip(table) == {r.id : r \in {q \in table : q.trip_id = T}}
                   PostsOfTrip == {q.id : q \in {r \in schedule_posts' :
                                                    r.schedule_id \in OfTrip(schedules')}}
               IN  /\ \A p \in place_photos' \ place_photos :
                          p.place_id \in OfTrip(places')
                   /\ \A p \in schedule_photos' \ schedule_photos :
                          p.schedule_id \in OfTrip(schedules')
                   /\ \A p \in schedule_posts' \ schedule_posts :
                          p.schedule_id \in OfTrip(schedules')
                   /\ \A p \in schedule_post_photos' \ schedule_post_photos :
                          p.post_id \in PostsOfTrip
                   /\ \A p \in hotel_photos' \ hotel_photos :
                          p.hotel_id \in OfTrip(hotels')]_vars

(* C9: after a Place or Schedule photo-delete request no photo row that the
   request identifies, by its id or by the pair of parent id and URL,
   remains; a parent whose photo_url was the URL the request names for it,
   or the URL of one of its deleted photos, has a null photo_url, and every
   other parent is unchanged. *)
C9_PhotoUrlInSync ==
    [][\A c \in Cookies, photo_id \in 0..MaxPlacePhotoId, id \in 0..MaxPlaceId,
          url \in PlaceUrls :
           /\ (get_active_trip(c) # 0 /\ PlacesPhotoDelete(c, photo_id, id, url)) =>
                  LET deleted == place_photos \ place_photos'
                      cleared(r) ==
                          \/ (r.id = id /\ url # NullUrl /\ r.photo_url = url)
                          \/ \E d \in deleted : /\ d.place_id = r.id
                                                /\ d.photo_url = r.photo_url
                  IN  /\ \A p \in place_photos' :
                             /\ ~(photo_id # 0 /\ p.id = photo_id)
                             /\ ~(id # 0 /\ url # NullUrl
                                  /\ p.place_id = id /\ p.photo_url = url)
                      /\ places' = {IF cleared(r) THEN [r EXCEPT !.photo_url = NullUrl]
                                    ELSE r : r \in places}
           /\ (get_active_trip(c) # 0 /\ SchedulePhotoDelete(c, photo_id, id, url)) =>
                  LET deleted == schedule_photos \ schedule_photos'
                      cleared(r) ==
                          \/ (r.id = id /\ url # NullUrl /\ r.photo_url = url)
                          \/ \E d \in deleted : /\ d.schedule_id = r.id
                                                /\ d.photo_url = r.photo_url
                  IN  /\ \A p \in schedule_photos' :
                             /\ ~(photo_id # 0 /\ p.id = photo_id)
                             /\ ~(id # 0 /\ url # NullUrl
                                  /\ p.schedule_id = id /\ p.photo_url = url)
                      /\ schedules' = {IF cleared(r) THEN [r EXCEPT !.photo_url = NullUrl]
                                       ELSE r : r \in schedules}]_vars

-----------------------------------------------------------------------------
(* Hotels and their photos. *)

HotelForms ==
    {[name |-> "h", address |-> "", notes |-> "", photo_files |-> files] :
        files \in {<<>>, <<GoodFile>>, <<GoodFile, GoodFile>>}}

HotelBounds ==
    /\ next_id'.hotels <= MaxHotelId + 1
    /\ next_id'.hotel_photos <= MaxHotelPhotoId + 1
    /\ uploads' <= MaxUploads

InitHotels == EmptyStore /\ today = 1

NextHotels ==
    \/ \E c \in Cookies, f \in HotelForms : HotelsPost(c, f) /\ HotelBounds
    \/ \E c \in Cookies, id \in 1..MaxHotelId, f \in HotelForms :
           HotelsUpdate(c, id, f) /\ HotelBounds
    \/ \E c \in Cookies, id \in 1..MaxHotelId : HotelsDelete(c, id)
    \/ \E c \in Cookies, photo_id \in 0..MaxHotelPhotoId, id \in 0..MaxHotelId :
           HotelsPhotoDelete(c, photo_id, id)

SpecHotels == InitHotels /\ [][NextHotels]_vars

(* C10: a Hotel photo-delete request deletes the photo row of the id it
   gives and leaves every other HotelPhoto row, of the same hotel and of
   every other hotel, in the store. *)
C10_OnlyIdentifiedRow ==
    [][\A c \in Cookies, photo_id \in 1..MaxHotelPhotoId, id \in 0..MaxHotelId :
           (get_active_trip(c) # 0 /\ HotelsPhotoDelete(c, photo_id, id)) =>
               hotel_photos' = {p \in hotel_photos : p.id # photo_id}]_vars

-----------------------------------------------------------------------------
(* The remaining routes: home, the trip list, the settings, the edit pages
   and the list pages of memos, hotels and flights. *)

Unchanged == UNCHANGED <<trips, place_tables, schedule_tables, hotel_tables, memos,
                         flights, next_id, uploads, today, trip_settings, cookie, inflight>>

(* A variant of home that does not skip the rows dated before today. *)
HomeEveryDate(c) ==
    LET trip == get_active_trip(c)
        coming == {r \in schedules : r.trip_id = trip /\ parse_date(r.date) # 0}
        next_date == IF coming = {} THEN 0
                     ELSE CHOOSE d \in {parse_date(r.date) : r \in coming} :
                              \A r \in coming : d <= parse_date(r.date)
        next_day == {r \in coming : parse_date(r.date) = next_date}
    IN  /\ response' = IF trip = 0 THEN Redirect("trips")
                       ELSE [template |-> "home.html",
                             next_date |-> next_date,
                             next_day_schedules |-> Reverse(SeqOfSet(next_day))]
        /\ Unchanged

(* GET /: the schedules of the next day that has any, on or after today. *)
Home(c) ==
    LET trip == get_active_trip(c)
        coming == {r \in schedules : /\ r.trip_id = trip
                                     /\ parse_date(r.date) # 0
                                     /\ parse_date(r.date) >= today}
        next_date == IF coming = {} THEN 0
                     ELSE CHOOSE d \in {parse_date(r.date) : r \in coming} :
                              \A r \in coming : d <= parse_date(r.date)
        next_day == {r \in coming : parse_date(r.date) = next_date}
    IN  /\ response' = IF trip = 0 THEN Redirect("trips")
                       ELSE [template |-> "home.html",
                             next_date |-> next_date,
                             next_day_schedules |-> Reverse(SeqOfSet(next_day))]
        /\ Unchanged

(* An external URL is a token sequence: <<"https://", host>>, <<host>>, <<>>
   when blank. *)
NullExternalUrl == <<>>

(* normalize_external_url *)
normalize_external_url(value) ==
    IF value = <<>> THEN NullExternalUrl
    ELSE IF value[1] \in {"http://", "https://", "HTTP://"} THEN value
    ELSE <<"https://">> \o value

(* POST /settings/warika: upsert on trip_id. *)
WarikaUpdate(c, warika_url) ==
    LET trip == get_active_trip(c)
        payload == [trip_id |-> trip, warika_url |-> normalize_external_url(warika_url)]
    IN  IF trip = 0
        THEN response' = Redirect("trips") /\ Unchanged
        ELSE /\ trip_settings' = {r \in trip_settings : r.trip_id # trip} \cup {payload}
             /\ response' = Redirect("home")
             /\ UNCHANGED <<trips, place_tables, schedule_tables, hotel_tables, memos,
                            flights, next_id, uploads, today, cookie, inflight>>

(* GET /places/<place_id>/edit *)
PlacesEdit(c, place_id) ==
    LET trip == get_active_trip(c)
        data == {r \in places : r.id = place_id /\ r.trip_id = trip}
        row == CHOOSE r \in data : TRUE
    IN  /\ response' =
               IF trip = 0 THEN Redirect("trips")
               ELSE IF data = {} THEN Redirect("places")
               ELSE [template |-> "places_edit.html",
                     place |-> [row EXCEPT !.category = normalize_category(row.category)],
                     photos |-> SeqOfSet({p \in place_photos : p.place_id = place_id})]
        /\ Unchanged

(* GET /schedule/<schedule_id>/edit *)
ScheduleEdit(c, schedule_id) ==
    LET trip == get_active_trip(c)
        data == {r \in schedules : r.id = schedule_id /\ r.trip_id = trip}
    IN  /\ response' =
               IF trip = 0 THEN Redirect("trips")
               ELSE IF data = {} THEN Redirect("schedule")
               ELSE [template |-> "schedule_edit.html",
                     schedule |-> CHOOSE r \in data : TRUE,
                     photos |-> SeqOfSet({p \in schedule_photos :
                                             p.schedule_id = schedule_id})]
        /\ Unchanged

(* GET /memo: the memos of the trip, the newest first. *)
MemoGet(c) ==
    LET trip == get_active_trip(c)
    IN  /\ response' =
               IF trip = 0 THEN Redirect("trips")
               ELSE [template |-> "memo.html",
                     memos |-> Reverse(SeqOfSet({r \in memos : r.trip_id = trip}))]
        /\ Unchanged

(* GET /hotels *)
HotelsGet(c) ==
    LET trip == get_active_trip(c)
        hotels_data == Reverse(SeqOfSet({r \in hotels : r.trip_id = trip}))
        hotel_ids == {r.id : r \in Range(hotels_data)}
        photos == {p \in hotel_photos : p.hotel_id \in hotel_ids}
    IN  /\ response' =
               IF trip = 0 THEN Redirect("trips")
               ELSE [template |-> "hotels.html",
                     hotels |-> hotels_data,
                     photos_by_hotel |->
                         [id \in {p.hotel_id : p \in photos} |->
                             SeqOfSet({p \in photos : p.hotel_id = id})]]
        /\ Unchanged

(* GET /hotels/<hotel_id>/edit *)
HotelsEdit(c, hotel_id) ==
    LET trip == get_active_trip(c)
        data == {r \in hotels : r.id = hotel_id /\ r.trip_id = trip}
    IN  /\ response' =
               IF trip = 0 THEN Redirect("trips")
               ELSE IF data = {} THEN Redirect("hotels")
               ELSE [template |-> "hotels_edit.html",
                     hotel |-> CHOOSE r \in data : TRUE,
                     photos |-> SeqOfSet({p \in hotel_photos : p.hotel_id = hotel_id})]
        /\ Unchanged

(* The place of a departure time in the order of the store: the times in
   ascending order, then the rows without one. *)
DepartRank(depart_at) ==
    CASE depart_at = "08:00" -> 1
      [] depart_at = "09:00" -> 2
      [] depart_at = "" -> 4
      [] OTHER -> 3

(* GET /flights: by departure ascending (nulls last), then id descending. *)
FlightsGet(c) ==
    LET trip == get_active_trip(c)
        rows == SeqOfSet({r \in flights : r.trip_id = trip})
        key(r) == <<DepartRank(r.payload.depart_at), 0 - r.id>>
    IN  /\ response' =
               IF trip = 0 THEN Redirect("trips")
               ELSE [template |-> "flights.html",
                     flights |-> Rows(SortedAsc([i \in 1..Len(rows) |->
                                     [key |-> key(rows[i]), row |-> rows[i]]]))]
        /\ Unchanged

(* GET /flights/<flight_id>/edit *)
FlightsEdit(c, flight_id) ==
    LET trip == get_active_trip(c)
        data == {r \in flights : r.id = flight_id /\ r.trip_id = trip}
    IN  /\ response' =
               IF trip = 0 THEN Redirect("trips")
               ELSE IF data = {} THEN Redirect("flights")
               ELSE [template |-> "flights_edit.html", flight |-> CHOOSE r \in data : TRUE]
        /\ Unchanged

(* A redirect that also sets (or, with NoCookie, deletes) the trip cookie. *)
RedirectWithCookie(to, value) ==
    [template |-> "redirect", to |-> to, set_cookie |-> value]

(* POST /trips: a new trip, which becomes the one the cookie names. *)
TripsPost ==
    LET trip_id == next_id.trips
    IN  /\ trips' = trips \cup {trip_id}
        /\ next_id' = [next_id EXCEPT !.trips = @ + 1]
        /\ cookie' = trip_id
        /\ response' = RedirectWithCookie("home", trip_id)
        /\ UNCHANGED <<place_tables, schedule_tables, hotel_tables, memos, flights,
                       uploads, today, trip_settings, inflight>>

(* GET /trips: the trips, the newest first. *)
TripsGet(c) ==
    /\ response' = [template |-> "trips.html",
                    trips |-> Reverse(SeqOfSet({[id |-> t] : t \in trips})),
                    selected_trip_id |-> get_trip_cookie_id(c)]
    /\ Unchanged

(* POST /trips/select; trip_id is negative when the form value is blank or
   not a string of digits. *)
TripsSelect(trip_id) ==
    IF ~isdigit(trip_id)
    THEN response' = Redirect("trips") /\ Unchanged
    ELSE /\ cookie' = trip_id
         /\ response' = RedirectWithCookie("home", trip_id)
         /\ UNCHANGED <<trips, place_tables, schedule_tables, hotel_tables, memos,
                        flights, next_id, uploads, today, trip_settings, inflight>>

(* A variant of delete_cookie that leaves the cookie in the jar. *)
keep_cookie(jar) == jar

(* resp.delete_cookie(TRIP_COOKIE): what the browser holds afterwards. *)
delete_cookie(jar) == NoCookie

(* POST /trips/clear *)
TripsClear ==
    /\ cookie' = delete_cookie(cookie)
    /\ response' = RedirectWithCookie("trips", NoCookie)
    /\ UNCHANGED <<trips, place_tables, schedule_tables, hotel_tables, memos,
                   flights, next_id, uploads, today, trip_settings, inflight>>

-----------------------------------------------------------------------------
(* Every trip-scoped route under every kind of cookie. *)

MaxRouteRows == 2

(* The cookies of a request: absent, not digits, "0", the first trip, and an
   id that names no trip. *)
RouteCookies == {NoCookie, NonDigitCookie, 0, 1, NumTrips + 1}

RoutePlaceForm == PlaceForm("x", NullUrl, <<1>>)

RouteScheduleForm == ScheduleForm("t", IsoDate(1), NullUrl, <<1>>, <<>>)

RoutePostEntry == [time |-> 0, title |-> "p", body |-> "", files |-> <<GoodFile>>]

RouteHotelForm == [name |-> "h", address |-> "", notes |-> "", photo_files |-> <<GoodFile>>]

RouteFlightForm == [k \in FlightFields |-> IF k = "airline" THEN "a" ELSE ""]

(* The rows the store has been given ids for, over all tables but trips. *)
RowsIssued(n) ==
    n.places + n.place_photos + n.schedules + n.schedule_photos + n.schedule_posts
    + n.schedule_post_photos + n.hotels + n.hotel_photos + n.memos + n.flights - 10

RouteBounds == RowsIssued(next_id') <= MaxRouteRows

(* A request to a trip-scoped route, sent with cookie c. *)
ScopedRequest(c) ==
    \/ Home(c)
    \/ WarikaUpdate(c, <<"warika.example">>)
    \/ PlacesGet(c, "all")
    \/ PlacesPost(c, RoutePlaceForm) /\ RouteBounds
    \/ \E id \in 1..MaxRouteRows : PlacesEdit(c, id)
    \/ \E id \in 1..MaxRouteRows : PlacesUpdate(c, id, RoutePlaceForm) /\ RouteBounds
    \/ \E id \in 1..MaxRouteRows : PlacesDelete(c, id)
    \/ \E id \in 1..MaxRouteRows : PlacesPhotoDelete(c, id, 0, NullUrl)
    \/ ScheduleGet(c)
    \/ SchedulePost(c, <<RouteScheduleForm>>) /\ RouteBounds
    \/ \E id \in 1..MaxRouteRows : ScheduleEdit(c, id)
    \/ \E id \in 1..MaxRouteRows : ScheduleUpdate(c, id, RouteScheduleForm) /\ RouteBounds
    \/ \E id \in 1..MaxRouteRows : SchedulePostCreate(c, id, <<RoutePostEntry>>) /\ RouteBounds
    \/ \E id \in 1..MaxRouteRows : SchedulePostDelete(c, id)
    \/ \E id \in 1..MaxRouteRows : SchedulePostPhotoDelete(c, id, 0, NullUrl)
    \/ \E id \in 1..MaxRouteRows : ScheduleDelete(c, id)
    \/ \E id \in 1..MaxRouteRows : SchedulePhotoDelete(c, id, 0, NullUrl)
    \/ MemoGet(c)
    \/ MemoPost(c, "m") /\ RouteBounds
    \/ \E id \in 1..MaxRouteRows : MemoDelete(c, id)
    \/ HotelsGet(c)
    \/ HotelsPost(c, RouteHotelForm) /\ RouteBounds
    \/ \E id \in 1..MaxRouteRows : HotelsEdit(c, id)
    \/ \E id \in 1..MaxRouteRows : HotelsUpdate(c, id, RouteHotelForm) /\ RouteBounds
    \/ \E id \in 1..MaxRouteRows : HotelsDelete(c, id)
    \/ \E id \in 1..MaxRouteRows : HotelsPhotoDelete(c, id, 0)
    \/ FlightsGet(c)
    \/ FlightsPost(c, RouteFlightForm) /\ RouteBounds
    \/ \E id \in 1..MaxRouteRows : FlightsEdit(c, id)
    \/ \E id \in 1..MaxRouteRows : FlightsUpdate(c, id, RouteFlightForm)
    \/ \E id \in 1..MaxRouteRows : FlightsDelete(c, id)

InitRoutes == EmptyStore /\ today = 1

(* The answer to a request whose handler raised an exception. *)
ServerError == [template |-> "500"]

(* A trip-scoped route called with a cookie that int rejects: the ValueError
   leaves get_trip_cookie_id, the first call of every such handler after the
   client is built, and no statement after it runs. *)
ScopedRequestRaises ==
    /\ response' = ServerError
    /\ Unchanged

NextRoutes ==
    \/ \E c \in RouteCookies : ScopedRequest(c)
    \/ ScopedRequestRaises

SpecRoutes == InitRoutes /\ [][NextRoutes]_vars

(* The cookie is absent, is not a number from 1 on, or names no trip. *)
InvalidCookie(c) == c < 0 \/ c \notin trips

(* A request to a trip-scoped route that carries cookie c. *)
RouteRequest(c) ==
    IF c = UnconvertibleCookie THEN ScopedRequestRaises ELSE ScopedRequest(c)

(* The tables, the id counters, the storage bucket and the settings. *)
store == <<trips, places, place_photos, schedules, schedule_photos, schedule_posts,
           schedule_post_photos, hotels, hotel_photos, memos, flights, next_id,
           uploads, trip_settings>>

(* C11: a request to a trip-scoped route whose cookie is absent, not
   numeric, or names no trip is answered with a redirect to the trip list
   and writes nothing to the store or the storage. *)
C11_NoTripRedirects ==
    [][\A c \in RouteCookies \cup {UnconvertibleCookie} :
           (InvalidCookie(c) /\ RouteRequest(c)) =>
               /\ response' = Redirect("trips")
               /\ UNCHANGED store]_vars

-----------------------------------------------------------------------------
(* The session of one browser: the cookie jar holds what trips, trips_select
   and trips_clear set, and every trip-scoped request carries it. *)

SelectValues == {NonDigitCookie, UnconvertibleCookie} \cup (0..(NumTrips + 1))

MaxTrips == 3

MaxSessionRows == 1

InitSession == EmptyStore /\ today = 1

NextSession ==
    \/ \E t \in SelectValues : TripsSelect(t)
    \/ TripsClear
    \/ TripsPost /\ next_id.trips <= MaxTrips
    \/ RouteRequest(cookie) /\ RowsIssued(next_id') <= MaxSessionRows

SpecSession == InitSession /\ [][NextSession]_vars

(* The rows of the tables whose rows carry a trip id. *)
StampedRows == places \cup schedules \cup hotels \cup memos \cup flights

(* C12: after /trips/select with a numeric id t the requests that follow
   resolve trip t as the active trip when it exists: they are not turned
   away and stamp the rows they insert with t; after /trips/clear every
   trip-scoped request is redirected to the trip list and writes nothing,
   until a trip is selected or created, the only steps that set the cookie. *)
C12_SelectAndClear ==
    /\ [][\A t \in 0..(NumTrips + 1) : TripsSelect(t) => cookie' = t]_vars
    /\ [][TripsClear => cookie' = NoCookie]_vars
    /\ [][RouteRequest(cookie) =>
              /\ cookie' = cookie
              /\ cookie \in trips =>
                     /\ response' # Redirect("trips")
                     /\ \A r \in StampedRows' \ StampedRows : r.trip_id = cookie
              /\ cookie = NoCookie =>
                     /\ response' = Redirect("trips")
                     /\ UNCHANGED store]_vars
    /\ [][cookie' # cookie =>
              \/ \E t \in SelectValues : TripsSelect(t)
              \/ TripsPost
              \/ TripsClear]_vars

(* A trip was selected and written to, the cookie was cleared, and the
   request that followed was turned away. *)
C12_Witness ==
    /\ cookie = NoCookie
    /\ response = Redirect("trips")
    /\ \E r \in StampedRows : r.trip_id = NumTrips

-----------------------------------------------------------------------------
(* The multi-entry form parsers.  A form is the sequence of its fields in
   the order they were submitted, each <<key, value>>; the files of a request
   are a sequence of <<key, file>>.  A key is a field name cut at its
   underscores: the prefix, the field, and the suffix after the last "_". *)

FieldKey(prefix, field, suffix) ==
    [prefix |-> prefix, field |-> field, suffix |-> suffix]

(* The decimal digits of n written after z zeros: Digits(0, 2) is "2",
   Digits(1, 2) is "02". *)
Digits(z, n) == <<z, n>>

(* A suffix that is not all digits, and the absence of a prefix and suffix
   (the names time, title, body, post_photos). *)
NonDigitSuffix == <<-1, 0>>

NoSuffix == <<>>

(* key.rsplit("_", 1)[-1].isdigit() *)
suffix_isdigit(key) == key.suffix # NoSuffix /\ key.suffix[1] >= 0

(* int(key.rsplit("_", 1)[-1]) *)
suffix_int(key) == key.suffix[2]

(* The name f"{prefix}_{field}_{index}" *)
indexed_key(prefix, field, index) == FieldKey(prefix, field, Digits(0, index))

(* form.get(key) or "": the first value submitted under the name. *)
form_get(form, key) ==
    LET hits == {i \in 1..Len(form) : form[i][1] = key}
    IN  IF hits = {} THEN ""
        ELSE form[CHOOSE i \in hits : \A j \in hits : i <= j][2]

(* files.getlist(key): the files submitted under the name, in order. *)
files_getlist(files, key) ==
    LET hits == SelectSeq(files, LAMBDA f : f[1] = key)
    IN  [i \in 1..Len(hits) |-> hits[i][2]]

(* A variant of entry_indices that scans the form keys only. *)
form_key_indices(form, files, prefix) ==
    {suffix_int(form[i][1]) :
        i \in {j \in 1..Len(form) :
                   form[j][1].prefix = prefix /\ suffix_isdigit(form[j][1])}}

(* The set `indices` of both parsers: a form key that starts with the prefix
   and an underscore and ends in digits, a file key that starts with
   prefix_photos_ and ends in digits. *)
entry_indices(form, files, prefix) ==
    {suffix_int(form[i][1]) :
        i \in {j \in 1..Len(form) :
                   form[j][1].prefix = prefix /\ suffix_isdigit(form[j][1])}}
    \cup
    {suffix_int(files[i][1]) :
        i \in {j \in 1..Len(files) :
                   /\ files[j][1].prefix = prefix
                   /\ files[j][1].field = "photos"
                   /\ suffix_isdigit(files[j][1])}}

RECURSIVE sorted(_)
(* sorted(indices) *)
sorted(S) ==
    IF S = {} THEN <<>>
    ELSE LET m == CHOOSE x \in S : \A y \in S : x <= y
         IN  <<m>> \o sorted(S \ {m})

(* The number the model keeps for a time of day (0 is None). *)
TimeOfDay(value) ==
    CASE value = "09:00" -> 1
      [] value = "10:00" -> 2
      [] OTHER -> 0

(* collect_schedule_entries: the entry read at one index.  Of the fields that
   are copied to the entry without deciding whether it is kept, start_time
   stands for all; date, photo_url and the photo lists are not in the forms of
   this section and read as absent. *)
schedule_entry_at(form, files, index) ==
    [title |-> Strip(form_get(form, indexed_key("schedule", "title", index))),
     date |-> NullDate,
     start_time |-> Strip(form_get(form, indexed_key("schedule", "start_time", index))),
     detail |-> Strip(form_get(form, indexed_key("schedule", "detail", index))),
     address |-> form_get(form, indexed_key("schedule", "address", index)),
     photo_url |-> normalize_photo_url(NullUrl),
     photo_urls |-> <<>>,
     photo_refs |-> <<>>,
     photo_files |-> files_getlist(files, indexed_key("schedule", "photos", index))]

(* collect_schedule_entries *)
collect_schedule_entries(form, files) ==
    LET indices == sorted(entry_indices(form, files, "schedule"))
        read == [i \in 1..Len(indices) |-> schedule_entry_at(form, files, indices[i])]
    IN  SelectSeq(read, LAMBDA e : \/ e.title # ""
                                   \/ e.date # NullDate
                                   \/ e.detail # ""
                                   \/ e.address # ""
                                   \/ e.photo_files # <<>>)

(* collect_post_entries: the entry read at one index. *)
post_entry_at(form, files, prefix, index) ==
    [time |-> TimeOfDay(form_get(form, indexed_key(prefix, "time", index))),
     title |-> Strip(form_get(form, indexed_key(prefix, "title", index))),
     body |-> Strip(form_get(form, indexed_key(prefix, "body", index))),
     files |-> files_getlist(files, indexed_key(prefix, "photos", index))]

(* The entry of the fields time, title, body and the files post_photos. *)
post_entry_unindexed(form, files) ==
    [time |-> TimeOfDay(form_get(form, FieldKey("", "time", NoSuffix))),
     title |-> Strip(form_get(form, FieldKey("", "title", NoSuffix))),
     body |-> Strip(form_get(form, FieldKey("", "body", NoSuffix))),
     files |-> files_getlist(files, FieldKey("", "post_photos", NoSuffix))]

post_entry_kept(e) == e.time # 0 \/ e.title # "" \/ e.body # "" \/ e.files # <<>>

(* The end of collect_post_entries: the indexed entries when there are any,
   else the un-indexed one when it has a field, else the empty list. *)
post_fallback(entries, single) ==
    IF entries # <<>> THEN entries
    ELSE IF post_entry_kept(single) THEN <<single>>
    ELSE <<>>

(* collect_post_entries *)
collect_post_entries(form, files, prefix) ==
    LET indices == sorted(entry_indices(form, files, prefix))
        read == [i \in 1..Len(indices) |-> post_entry_at(form, files, prefix, indices[i])]
    IN  post_fallback(SelectSeq(read, post_entry_kept),
                      post_entry_unindexed(form, files))

-----------------------------------------------------------------------------
(* The two parsers applied to forms of at most MaxFields fields and requests
   of at most MaxFileParts file parts. *)

MaxFields == 2

MaxFileParts == 1

(* The part a browser sends for a file input in which no file was chosen. *)
EmptyFile == [filename |-> <<>>, size |-> 0]

(* The suffixes of the field names: "0", "2", "02" and one without digits. *)
ParseSuffixes == {Digits(0, 0), Digits(0, 2), Digits(1, 2), NonDigitSuffix}

ParseIndices == {0, 2}

ScheduleFields ==
    {<<FieldKey("schedule", "title", x), v>> : x \in ParseSuffixes, v \in {"A", " ", ""}}
    \cup {<<FieldKey("schedule", "start_time", x), "09:00">> : x \in ParseSuffixes}
    \cup {<<FieldKey("schedule", "address", x), "x">> : x \in ParseSuffixes}

ScheduleFileParts ==
    {<<FieldKey("schedule", "photos", x), f>> :
        x \in ParseSuffixes, f \in {GoodFile, EmptyFile}}

PostFields ==
    {<<FieldKey("post", "title", x), v>> : x \in ParseSuffixes, v \in {"p", ""}}
    \cup {<<FieldKey("post", "time", x), "10:00">> : x \in ParseSuffixes}
    \cup {<<FieldKey("", "title", NoSuffix), v>> : v \in {"q", " "}}
    \cup {<<FieldKey("", "body", NoSuffix), "b">>}

PostFileParts ==
    {<<FieldKey("post", "photos", x), GoodFile>> : x \in ParseSuffixes}
    \cup {<<FieldKey("", "post_photos", NoSuffix), f>> : f \in {GoodFile, EmptyFile}}

SeqsUpTo(S, n) == UNION {[1..k -> S] : k \in 0..n}

(* A request body is handed to one of the parsers. *)
InitParse ==
    /\ EmptyTables
    /\ today = 1
    /\ \/ \E form \in SeqsUpTo(ScheduleFields, MaxFields),
             files \in SeqsUpTo(ScheduleFileParts, MaxFileParts) :
              response = [template |-> "form", parser |-> "schedule",
                          form |-> form, files |-> files]
       \/ \E form \in SeqsUpTo(PostFields, MaxFields),
             files \in SeqsUpTo(PostFileParts, MaxFileParts) :
              response = [template |-> "form", parser |-> "post",
                          form |-> form, files |-> files]

CollectSchedule ==
    /\ response.template = "form"
    /\ response.parser = "schedule"
    /\ response' = [template |-> "entries", parser |-> "schedule",
                    form |-> response.form, files |-> response.files,
                    entries |-> collect_schedule_entries(response.form, response.files)]
    /\ Unchanged

CollectPost ==
    /\ response.template = "form"
    /\ response.parser = "post"
    /\ response' = [template |-> "entries", parser |-> "post",
                    form |-> response.form, files |-> response.files,
                    entries |-> collect_post_entries(response.form, response.files, "post")]
    /\ Unchanged

NextParse == CollectSchedule \/ CollectPost

SpecParse == InitParse /\ [][NextParse]_vars

ParsedBy(parser) == response.template = "entries" /\ response.parser = parser

(* The files of a list in which a file was chosen. *)
Chosen(fs) == SelectSeq(fs, LAMBDA f : f.filename # <<>>)

(* A field of the schedule sub-form of index n is not empty: its title or
   detail has a character that is not a blank, or it has an address, or a file
   was chosen in its file input. *)
ScheduleIndexFilled(form, files, n) ==
    \/ Strip(form_get(form, indexed_key("schedule", "title", n))) # ""
    \/ Strip(form_get(form, indexed_key("schedule", "detail", n))) # ""
    \/ form_get(form, indexed_key("schedule", "address", n)) # ""
    \/ Chosen(files_getlist(files, indexed_key("schedule", "photos", n))) # <<>>

(* C13: collect_schedule_entries returns one entry per index that has a
   non-empty meaningful field, in ascending order of the index whatever the
   order of submission; an index that is absent or whose fields are all empty
   contributes nothing. *)
C13_OneEntryPerFilledIndex ==
    ParsedBy("schedule") =>
        LET form == response.form
            files == response.files
            entries == response.entries
            filled == sorted({n \in ParseIndices : ScheduleIndexFilled(form, files, n)})
        IN  /\ Len(entries) = Len(filled)
            /\ \A i \in 1..Len(entries) :
                   i <= Len(filled) =>
                       /\ entries[i].title =
                              Strip(form_get(form, indexed_key("schedule", "title", filled[i])))
                       /\ entries[i].address =
                              form_get(form, indexed_key("schedule", "address", filled[i]))
                       /\ entries[i].photo_files =
                              files_getlist(files, indexed_key("schedule", "photos", filled[i]))

(* The indices named by the form fields of a prefix, and those named by its
   file fields. *)
FormIndices(form, prefix) ==
    {n \in ParseIndices : \E i \in 1..Len(form) :
        form[i][1].prefix = prefix /\ form[i][1].suffix = Digits(0, n)}

FileIndices(files, prefix) ==
    {n \in ParseIndices : \E i \in 1..Len(files) :
        files[i][1] = indexed_key(prefix, "photos", n)}

(* The files an entry carries, of either parser. *)
EntryFiles(parser, e) == IF parser = "schedule" THEN e.photo_files ELSE e.files

EntryTitle(form, parser, n) == Strip(form_get(form, indexed_key(parser, "title", n)))

(* C14: in both parsers an index that is named by a file field only is
   found and gives an entry that carries the files of that field, and the
   entries are those of the indices named by a form field or a file field. *)
C14_FileOnlyIndex ==
    (ParsedBy("schedule") \/ ParsedBy("post")) =>
        LET parser == response.parser
            form == response.form
            files == response.files
            entries == response.entries
            at(n) == files_getlist(files, indexed_key(parser, "photos", n))
            named == FormIndices(form, parser) \cup FileIndices(files, parser)
        IN  /\ \A n \in FileIndices(files, parser) \ FormIndices(form, parser) :
                   \E i \in 1..Len(entries) :
                       /\ EntryFiles(parser, entries[i]) = at(n)
                       /\ entries[i].title = ""
            /\ FileIndices(files, parser) # {} =>
                   \A i \in 1..Len(entries) :
                       \E n \in named :
                           /\ EntryFiles(parser, entries[i]) = at(n)
                           /\ entries[i].title = EntryTitle(form, parser, n)

(* The post parser read index 0 from a text field and index 2 from a file
   field alone, and returned the two entries in that order. *)
C14_Witness ==
    /\ ParsedBy("post")
    /\ FormIndices(response.form, "post") = {0}
    /\ FileIndices(response.files, "post") = {2}
    /\ Len(response.entries) = 2
    /\ response.entries[1].title = "p"
    /\ response.entries[2].files = <<GoodFile>>

(* A field of the post sub-form of index n, or of the un-indexed fields,
   is not empty. *)
PostIndexFilled(form, files, n) ==
    \/ form_get(form, indexed_key("post", "time", n)) # ""
    \/ Strip(form_get(form, indexed_key("post", "title", n))) # ""
    \/ Strip(form_get(form, indexed_key("post", "body", n))) # ""
    \/ Chosen(files_getlist(files, indexed_key("post", "photos", n))) # <<>>

PostUnindexedFilled(form, files) ==
    \/ form_get(form, FieldKey("", "time", NoSuffix)) # ""
    \/ Strip(form_get(form, FieldKey("", "title", NoSuffix))) # ""
    \/ Strip(form_get(form, FieldKey("", "body", NoSuffix))) # ""
    \/ Chosen(files_getlist(files, FieldKey("", "post_photos", NoSuffix))) # <<>>

(* C15: collect_post_entries reads the un-indexed fields only when no
   indexed entry is found: with an indexed entry the result is the indexed
   entries alone, without one it is the entry of the un-indexed fields, and
   when neither has a non-empty field it is the empty list. *)
C15_UnindexedFallback ==
    ParsedBy("post") =>
        LET form == response.form
            files == response.files
            entries == response.entries
            filled == sorted({n \in ParseIndices : PostIndexFilled(form, files, n)})
        IN  /\ filled # <<>> =>
                   entries = [i \in 1..Len(filled) |->
                                 post_entry_at(form, files, "post", filled[i])]
            /\ (filled = <<>> /\ PostUnindexedFilled(form, files)) =>
                   entries = <<post_entry_unindexed(form, files)>>
            /\ (filled = <<>> /\ ~PostUnindexedFilled(form, files)) =>
                   entries = <<>>

-----------------------------------------------------------------------------
(* The create requests of places, hotels, memos and flights, and the place
   list. *)

MaxCreateRows == 2

CreateCookies == TripCookies

CreatePlaceForms ==
    [name : {"", " ", "x"}, notes : {"", " "}, address : {"", " "},
     category : {""}, photo_url : {NullUrl},
     photo_refs : {<<>>, <<1>>}, photo_urls : {<<>>},
     photo_files : {<<>>, <<GoodFile>>}]

CreateHotelForms ==
    [name : {"", " ", "h"}, address : {"", " "}, notes : {"", " "},
     photo_files : {<<>>, <<GoodFile>>}]

CreateMemoBodies == {"", " ", "m"}

CreateFlightForms ==
    {[k \in FlightFields |->
         IF k = "airline" THEN airline ELSE IF k = "depart_at" THEN depart_at ELSE ""] :
        airline \in {"", " ", "a"}, depart_at \in {"", " ", "09:00"}}

CreateBounds == RowsIssued(next_id') <= MaxCreateRows

InitCreate == EmptyStore /\ today = 1

NextCreate ==
    \E c \in CreateCookies :
        \/ \E form \in CreatePlaceForms : PlacesPost(c, form) /\ CreateBounds
        \/ \E form \in CreateHotelForms : HotelsPost(c, form) /\ CreateBounds
        \/ \E body \in CreateMemoBodies : MemoPost(c, body) /\ CreateBounds
        \/ \E form \in CreateFlightForms : FlightsPost(c, form) /\ CreateBounds
        \/ PlacesGet(c, "all")

SpecCreate == InitCreate /\ [][NextCreate]_vars

(* A text is blank: it has no character, or only white space. *)
Blank(text) == text \in {"", " "}

(* C16: a create request of a place, hotel, memo or flight whose meaningful
   text fields are all blank inserts no row and uploads nothing, whatever
   photo files or photo references come with it. *)
C16_BlankCreateWritesNothing ==
    [][\A c \in CreateCookies :
           /\ \A form \in CreatePlaceForms :
                  ( /\ Blank(form.name) /\ Blank(form.notes) /\ Blank(form.address)
                    /\ PlacesPost(c, form) ) => UNCHANGED store
           /\ \A form \in CreateHotelForms :
                  ( /\ Blank(form.name) /\ Blank(form.address) /\ Blank(form.notes)
                    /\ HotelsPost(c, form) ) => UNCHANGED store
           /\ \A body \in CreateMemoBodies :
                  (Blank(body) /\ MemoPost(c, body)) => UNCHANGED store
           /\ \A form \in CreateFlightForms :
                  ((\A k \in FlightFields : Blank(form[k])) /\ FlightsPost(c, form))
                      => UNCHANGED store]_vars

TripPlaces(trip) == {r \in places : r.trip_id = trip}

(* C17: in a trip without places, a create request that has a name and
   nothing else leaves the trip with exactly one place, of that name, of the
   category "other" and stamped with the trip, and the list that a fetch
   renders is the places of the trip. *)
C17_NameOnlyPlace ==
    /\ [][\A c \in CreateCookies, form \in CreatePlaceForms :
              ( /\ TripPlaces(c) = {}
                /\ form.name = "x" /\ form.notes = "" /\ form.address = ""
                /\ form.category = "" /\ form.photo_refs = <<>>
                /\ form.photo_files = <<>>
                /\ PlacesPost(c, form) ) =>
                  /\ Cardinality(TripPlaces(c)') = 1
                  /\ \A r \in TripPlaces(c)' :
                         r.name = "x" /\ r.category = "ja:other" /\ r.trip_id = c]_vars
    /\ [][\A c \in CreateCookies :
              PlacesGet(c, "all") =>
                  /\ response'.template = "places.html"
                  /\ Len(response'.places) = Cardinality(TripPlaces(c))
                  /\ {response'.places[i].row : i \in 1..Len(response'.places)}
                         = TripPlaces(c)
                  /\ \A i \in 1..Len(response'.places) :
                         response'.places[i].category_display
                             = response'.places[i].row.category]_vars

(* The list of a trip that holds the one place created from a name. *)
C17_Witness ==
    /\ response.template = "places.html"
    /\ TripPlaces(response.trip) =
           {[id |-> 1, trip_id |-> response.trip, name |-> "x", category |-> "ja:other",
             notes |-> "", address |-> "", photo_url |-> NullUrl]}
    /\ Len(response.places) = 1
    /\ response.places[1].row.name = "x"
    /\ response.places[1].category_display = "ja:other"

-----------------------------------------------------------------------------
(* normalize_category and normalize_photo_url applied once and again. *)

MaxToken == 2

CategoryInputs ==
    PLACE_CATEGORIES \cup DOMAIN LEGACY_CATEGORY_MAP
        \cup {"", " ", "Cafe", " Cafe ", " cafe ", "SPOT", " ja:cafe ", "bar"}

UrlTokens == {t \in (0 - MaxToken)..MaxToken : t # 0}

(* The URLs: a stored reference, a raw URL with the token in one of the two
   query parameters (first or later in the query), and URLs that carry no
   such parameter: another prefix case, the word in the path, a plain URL. *)
UrlInputs ==
    {NullUrl} \cup
    {<<kind, t>> :
        kind \in {"google-ref:", "?photo_reference=", "&photo_reference=", "?1s",
                  "&1s", "GOOGLE-REF:", "/photo_reference=", "https://"},
        t \in UrlTokens}

InitNormalize ==
    /\ EmptyTables
    /\ today = 1
    /\ \/ \E value \in CategoryInputs :
              response = [template |-> "input", fn |-> "normalize_category",
                          value |-> value]
       \/ \E value \in UrlInputs :
              response = [template |-> "input", fn |-> "normalize_photo_url",
                          value |-> value]

CategoryOnce ==
    /\ response.template = "input"
    /\ response.fn = "normalize_category"
    /\ response' = [template |-> "once", fn |-> response.fn, value |-> response.value,
                    once |-> normalize_category(response.value)]
    /\ Unchanged

CategoryAgain ==
    /\ response.template = "once"
    /\ response.fn = "normalize_category"
    /\ response' = [template |-> "again", fn |-> response.fn, value |-> response.value,
                    once |-> response.once,
                    again |-> normalize_category(response.once)]
    /\ Unchanged

PhotoUrlOnce ==
    /\ response.template = "input"
    /\ response.fn = "normalize_photo_url"
    /\ response' = [template |-> "once", fn |-> response.fn, value |-> response.value,
                    once |-> normalize_photo_url(response.value)]
    /\ Unchanged

PhotoUrlAgain ==
    /\ response.template = "once"
    /\ response.fn = "normalize_photo_url"
    /\ response' = [template |-> "again", fn |-> response.fn, value |-> response.value,
                    once |-> response.once,
                    again |-> normalize_photo_url(response.once)]
    /\ Unchanged

NextNormalize == CategoryOnce \/ CategoryAgain \/ PhotoUrlOnce \/ PhotoUrlAgain

SpecNormalize == InitNormalize /\ [][NextNormalize]_vars

Applied(fn) == response.template \in {"once", "again"} /\ response.fn = fn

(* The statement of C18 in its own words: a value that is neither a
   canonical category nor one of the four legacy keys gives "other". *)
C18_EverythingElseOther ==
    Applied("normalize_category") =>
        (response.value \notin PLACE_CATEGORIES \cup DOMAIN LEGACY_CATEGORY_MAP
            => response.once = "ja:other")

(* C18: normalize_category returns one of the five categories for every
   value, and the same category when applied to its own result; a value that
   is a canonical category once its surrounding white space is removed gives
   that category, a value that is a legacy key once it is also put in lower
   case gives the category of the key, and every other value gives "other". *)
C18_NormalizeCategory ==
    Applied("normalize_category") =>
        LET value == response.value
            trimmed == Strip(value)
        IN  /\ response.once \in PLACE_CATEGORIES
            /\ response.template = "again" => response.again = response.once
            /\ value \in PLACE_CATEGORIES => response.once = value
            /\ value \in DOMAIN LEGACY_CATEGORY_MAP =>
                   response.once = LEGACY_CATEGORY_MAP[value]
            /\ response.once =
                   (IF trimmed \in PLACE_CATEGORIES THEN trimmed
                    ELSE IF Lower(trimmed) \in DOMAIN LEGACY_CATEGORY_MAP
                         THEN LEGACY_CATEGORY_MAP[Lower(trimmed)]
                         ELSE "ja:other")

(* A legacy key in capitals between blanks was given its category, and the
   second application kept it. *)
C18_Witness ==
    /\ response.template = "again"
    /\ response.fn = "normalize_category"
    /\ response.value = " Cafe "
    /\ response.once = "ja:cafe"
    /\ response.again = "ja:cafe"

(* C19: normalize_photo_url returns a value that starts with google-ref:
   as it is; a URL with the token T in a photo_reference or 1s query parameter
   becomes google-ref: followed by T; every other URL is returned as it is;
   and the function applied to its own result returns that result. *)
C19_NormalizePhotoUrl ==
    Applied("normalize_photo_url") =>
        LET value == response.value
        IN  /\ value[1] = "google-ref:" => response.once = value
            /\ value[1] \in {"?photo_reference=", "&photo_reference=", "?1s", "&1s"} =>
                   response.once = <<"google-ref:", IF value[2] < 0 THEN 0 - value[2]
                                                    ELSE value[2]>>
            /\ value[1] \in {"GOOGLE-REF:", "/photo_reference=", "https://", "null"} =>
                   response.once = value
            /\ response.template = "again" => response.again = response.once

(* A raw URL with a percent-encoded token became the reference of the
   decoded token, and the second application returned the reference. *)
C19_Witness ==
    /\ response.template = "again"
    /\ response.fn = "normalize_photo_url"
    /\ response.value = <<"&photo_reference=", 0 - MaxToken>>
    /\ response.once = GoogleRef(MaxToken)
    /\ response.again = GoogleRef(MaxToken)

-----------------------------------------------------------------------------
(* The photo lists of the place list and of the schedule list, over stores
   in which a parent has several photo rows of one URL; and the loop that
   dedupes a list, over lists in which entries lack an id or a URL. *)

MaxDedupeRows == 3

MaxDedupeLen == 3

DedupeCookie == 1

DedupePlaceForms ==
    {[PlaceForm("x", NullUrl, refs) EXCEPT !.photo_files = files] :
        refs \in {<<>>} \cup {<<r>> : r \in Refs},
        files \in {<<>>, <<GoodFile>>}}

DedupeScheduleForms ==
    {ScheduleForm("t", NullDate, NullUrl, refs, files) :
        refs \in {<<>>} \cup {<<r>> : r \in Refs},
        files \in {<<>>, <<GoodFile>>}}

DedupeBounds ==
    /\ next_id'.places <= 2
    /\ next_id'.schedules <= 2
    /\ next_id'.place_photos <= MaxDedupeRows + 1
    /\ next_id'.schedule_photos <= MaxDedupeRows + 1

(* The entries of a list handed to the loop: id 0 is None. *)
DedupeEntries == [id : 0..2, url : {NullUrl, GoogleRef(1), PublicUrl(1)}]

InitDedupe ==
    /\ EmptyTables
    /\ today = 1
    /\ \E photos \in SeqsUpTo(DedupeEntries, MaxDedupeLen) :
           response = [template |-> "photos", photos |-> photos]

DedupeApply ==
    /\ response.template = "photos"
    /\ response' = [template |-> "deduped", photos |-> response.photos,
                    deduped |-> dedupe_photos(response.photos)]
    /\ Unchanged

NextDedupe ==
    \/ DedupeApply
    \/ \E form \in DedupePlaceForms : PlacesPost(DedupeCookie, form) /\ DedupeBounds
    \/ \E form \in DedupePlaceForms : PlacesUpdate(DedupeCookie, 1, form) /\ DedupeBounds
    \/ PlacesGet(DedupeCookie, "all")
    \/ \E form \in DedupeScheduleForms :
           SchedulePost(DedupeCookie, <<form>>) /\ DedupeBounds
    \/ \E form \in DedupeScheduleForms :
           ScheduleUpdate(DedupeCookie, 1, form) /\ DedupeBounds
    \/ ScheduleGet(DedupeCookie)

SpecDedupe == InitDedupe /\ [][NextDedupe]_vars

NoTwoOfOneUrl(list) ==
    \A i, j \in 1..Len(list) : i # j => list[i].url # list[j].url

(* Of every URL that an entry with an id has in `photos`, the list keeps an
   entry with an id. *)
KeepsIdentified(photos, list) ==
    \A i \in 1..Len(photos) :
        (photos[i].id # 0 /\ photos[i].url # NullUrl) =>
            \E j \in 1..Len(list) : list[j].url = photos[i].url /\ list[j].id # 0

(* C20: the photo list of every parent in the place list and in the
   schedule list has no two entries of one URL, and of a URL that occurs with
   and without a row id the entry kept has a row id. *)
C20_DedupedPhotoLists ==
    /\ response.template = "places.html" =>
           \A id \in DOMAIN response.photos_by_place :
               /\ NoTwoOfOneUrl(response.photos_by_place[id])
               /\ \A i \in 1..Len(response.photos_by_place[id]) :
                      response.photos_by_place[id][i].id # 0
    /\ response.template = "schedule.html" =>
           \A id \in DOMAIN response.photos_by_schedule :
               /\ NoTwoOfOneUrl(response.photos_by_schedule[id])
               /\ \A i \in 1..Len(response.photos_by_schedule[id]) :
                      response.photos_by_schedule[id][i].id # 0
    /\ response.template = "deduped" =>
           /\ NoTwoOfOneUrl(response.deduped)
           /\ KeepsIdentified(response.photos, response.deduped)

(* The place list of a place that has two photo rows of one URL, while the
   schedule has two rows of one URL too. *)
C20_Witness ==
    /\ response.template = "places.html"
    /\ \E p, q \in place_photos :
           p.id # q.id /\ p.place_id = q.place_id /\ p.photo_url = q.photo_url
    /\ \E p, q \in schedule_photos :
           p.id # q.id /\ p.schedule_id = q.schedule_id /\ p.photo_url = q.photo_url

-----------------------------------------------------------------------------
(* upload_place_photos over lists of files, and a create request that
   carries them. *)

MaxUploadFiles == 3

UploadFiles ==
    {GoodFile, BadFile, EmptyFile,
     [filename |-> <<"photo">>, size |-> 1],
     [filename |-> <<"photo", ".", "png">>, size |-> 0],
     [filename |-> <<"photo", ".", "webp">>, size |-> 1],
     [filename |-> <<NonAsciiStem, ".", "jpg">>, size |-> 1]}

InitUpload ==
    /\ EmptyTables
    /\ today = 1
    /\ \E files \in SeqsUpTo(UploadFiles, MaxUploadFiles) :
           response = [template |-> "files", files |-> files]

(* The function is applied to the list, in a bucket that holds nothing. *)
UploadApply ==
    /\ response.template = "files"
    /\ response' = [template |-> "urls", files |-> response.files,
                    urls |-> upload_place_photos(response.files, uploads)]
    /\ uploads' = uploads + Len(upload_place_photos(response.files, uploads))
    /\ UNCHANGED <<trips, place_tables, schedule_tables, hotel_tables, memos,
                   flights, next_id, today, trip_settings, cookie, inflight>>

(* POST /hotels with the list as its photos. *)
UploadHotelsPost ==
    /\ response.template = "files"
    /\ next_id.hotels = 1
    /\ HotelsPost(DedupeCookie, [name |-> "h", address |-> "", notes |-> "",
                                 photo_files |-> response.files])

NextUpload == UploadApply \/ UploadHotelsPost

SpecUpload == InitUpload /\ [][NextUpload]_vars

(* The file has a name that ends in a dot and an allowed extension, in
   either case, and it has content. *)
Acceptable(file) ==
    /\ Len(file.filename) = 3
    /\ file.filename[2] = "."
    /\ \E ext \in ALLOWED_IMAGE_EXT : file.filename[3] = ext \/ Lower(file.filename[3]) = ext
    /\ file.size > 0

(* C21: upload_place_photos returns one URL per accepted file, in input
   order, with one upload per URL; a file that is missing, has no name, has no
   allowed extension or has no content gives no upload and no URL; every other
   file is accepted. *)
C21_OneUrlPerAcceptedFile ==
    response.template = "urls" =>
        LET accepted == SelectSeq(response.files, Acceptable)
        IN  /\ Len(response.urls) = Len(accepted)
            /\ uploads = Len(response.urls)
            /\ \A k \in 1..Len(response.urls) : response.urls[k] = PublicUrl(k)

-----------------------------------------------------------------------------
(* POST /schedule store call by store call.  A request r stands between two
   store calls at inflight[r].pc; a request can stop there for good (the
   worker is killed, a store call raises), and two requests can interleave. *)

MaxStepSchedules == 2

StepEntries ==
    {ScheduleForm("t", NullDate, NullUrl, refs, files) :
        refs \in {<<>>, <<1>>},
        files \in {<<>>, <<GoodFile>>, <<BadFile, GoodFile>>}}

StepEntryLists == {<<e>> : e \in StepEntries} \cup
                  {<<e, ScheduleForm("t", NullDate, NullUrl, <<1>>, <<>>)>> : e \in StepEntries}

(* The handler up to its loop: the active trip and the entries of the form. *)
SchedulePostBegin(r, c, entries) ==
    /\ inflight[r] = Idle
    /\ LET trip == get_active_trip(c)
       IN  IF trip = 0
           THEN response' = Redirect("trips") /\ UNCHANGED inflight
           ELSE /\ inflight' = [inflight EXCEPT ![r] =
                       [pc |-> "insert_schedule", trip |-> trip, entries |-> entries]]
                /\ UNCHANGED response
    /\ UNCHANGED <<trips, place_tables, schedule_tables, hotel_tables, memos,
                   flights, next_id, uploads, today, trip_settings, cookie>>

(* A variant of the first store call that takes the id and leaves the row to
   be written after the photo rows. *)
SchedulePostInsertScheduleLater(r) ==
    /\ inflight[r].pc = "insert_schedule"
    /\ LET st == inflight[r]
           entry == Head(st.entries)
       IN  /\ next_id' = [next_id EXCEPT !.schedules = @ + 1]
           /\ inflight' = [inflight EXCEPT ![r] =
                  [pc |-> "upload", trip |-> st.trip, entries |-> st.entries,
                   schedule_id |-> next_id.schedules,
                   files |-> entry.photo_files, photo_urls |-> <<>>]]
    /\ UNCHANGED <<trips, place_tables, schedule_tables, hotel_tables, memos,
                   flights, uploads, today, trip_settings, cookie, response>>

(* The insert of the schedule row of the entry at hand. *)
SchedulePostInsertSchedule(r) ==
    /\ inflight[r].pc = "insert_schedule"
    /\ LET st == inflight[r]
           entry == Head(st.entries)
           row == [id |-> next_id.schedules, trip_id |-> st.trip,
                   title |-> IF entry.title # "" THEN entry.title ELSE "yotei",
                   date |-> entry.date, detail |-> entry.detail,
                   address |-> entry.address,
                   photo_url |-> normalize_photo_url(entry.photo_url)]
       IN  /\ schedules' = schedules \cup {row}
           /\ next_id' = [next_id EXCEPT !.schedules = @ + 1]
           /\ inflight' = [inflight EXCEPT ![r] =
                  [pc |-> "upload", trip |-> st.trip, entries |-> st.entries,
                   schedule_id |-> row.id,
                   files |-> entry.photo_files, photo_urls |-> <<>>]]
    /\ UNCHANGED <<trips, place_tables, schedule_photos, schedule_posts,
                   schedule_post_photos, hotel_tables, memos, flights, uploads,
                   today, trip_settings, cookie, response>>

(* upload_place_photo of the next file of the entry. *)
SchedulePostUpload(r) ==
    /\ inflight[r].pc = "upload"
    /\ inflight[r].files # <<>>
    /\ LET st == inflight[r]
           urls == upload_place_photos(<<Head(st.files)>>, uploads)
       IN  /\ uploads' = uploads + Len(urls)
           /\ inflight' = [inflight EXCEPT ![r].files = Tail(st.files),
                                           ![r].photo_urls = st.photo_urls \o urls]
    /\ UNCHANGED <<trips, place_tables, schedule_tables, hotel_tables, memos,
                   flights, next_id, today, trip_settings, cookie, response>>

(* The insert of the photo rows of the entry, then the next entry or the
   redirect. *)
SchedulePostInsertPhotos(r) ==
    /\ inflight[r].pc = "upload"
    /\ inflight[r].files = <<>>
    /\ LET st == inflight[r]
           entry == Head(st.entries)
           extracted == SelectSeq([i \in 1..Len(entry.photo_urls) |->
                                      extract_photo_reference(entry.photo_urls[i])],
                                  LAMBDA t : t # 0)
           google_photo_refs == IF entry.photo_refs # <<>> THEN entry.photo_refs
                                ELSE extracted
           google_photo_entries == [i \in 1..Len(google_photo_refs) |->
                                        GoogleRef(google_photo_refs[i])]
           all_photo_urls == Take(google_photo_entries \o st.photo_urls, PhotoCap)
       IN  /\ schedule_photos' = schedule_photos \cup
                  schedule_photo_rows(st.schedule_id, all_photo_urls,
                                      next_id.schedule_photos)
           /\ next_id' = [next_id EXCEPT !.schedule_photos = @ + Len(all_photo_urls)]
           /\ IF Tail(st.entries) = <<>>
              THEN /\ inflight' = [inflight EXCEPT ![r] = Idle]
                   /\ response' = Redirect("schedule")
              ELSE /\ inflight' = [inflight EXCEPT ![r] =
                          [pc |-> "insert_schedule", trip |-> st.trip,
                           entries |-> Tail(st.entries)]]
                   /\ UNCHANGED response
    /\ UNCHANGED <<trips, place_tables, schedules, schedule_posts,
                   schedule_post_photos, hotel_tables, memos, flights, uploads,
                   today, trip_settings, cookie>>

(* The request stops where it stands: no later statement of it runs. *)
Stop(r) ==
    /\ inflight[r] # Idle
    /\ inflight' = [inflight EXCEPT ![r] = Idle]
    /\ response' = ServerError
    /\ UNCHANGED <<trips, place_tables, schedule_tables, hotel_tables, memos,
                   flights, next_id, uploads, today, trip_settings, cookie>>

InitCreateSteps == EmptyStore /\ today = 1

NextCreateSteps ==
    \E r \in Requests :
        \/ \E c \in {0, 1}, entries \in StepEntryLists :
               /\ next_id.schedules + Len(entries) <= MaxStepSchedules + 1
               /\ SchedulePostBegin(r, c, entries)
        \/ SchedulePostInsertSchedule(r)
        \/ SchedulePostUpload(r)
        \/ SchedulePostInsertPhotos(r)
        \/ Stop(r)

SpecCreateSteps == InitCreateSteps /\ [][NextCreateSteps]_vars

(* C22: at every point of schedule creation, between any two store calls and
   after a stop, every schedule photo row references a schedule row that
   exists. *)
C22_NoPhotoWithoutSchedule ==
    \A p \in schedule_photos : \E row \in schedules : row.id = p.schedule_id

(* A request stands between its schedule insert and the insert of that
   schedule's photos, while photo rows of another schedule are in the store. *)
C22_Witness ==
    \E r \in Requests :
        /\ inflight[r].pc = "upload"
        /\ inflight[r].files = <<>>
        /\ inflight[r].photo_urls # <<>>
        /\ \E row \in schedules : row.id = inflight[r].schedule_id
        /\ ~ \E p \in schedule_photos : p.schedule_id = inflight[r].schedule_id
        /\ schedule_photos # {}

-----------------------------------------------------------------------------
(* The list view with diary posts: schedules of past, present and missing
   dates, posts with and without a time. *)

MaxViewSchedules == 2

MaxViewPosts == 3

MaxPostTime == 2

PostsDates == {NullDate, Undated, IsoDate(1), IsoDate(2)}

PostsForms == {ScheduleForm("t", d, NullUrl, <<>>, <<>>) : d \in PostsDates}

PostsEntries == {[time |-> t, title |-> "p", body |-> "", files |-> <<>>] :
                    t \in 0..MaxPostTime}

InitPosts == EmptyStore /\ today = 2

NextPosts ==
    \/ \E e \in PostsForms :
           /\ next_id.schedules <= MaxViewSchedules
           /\ SchedulePost(1, <<e>>)
    \/ \E id \in 1..MaxViewSchedules, entry \in PostsEntries :
           /\ next_id.schedule_posts <= MaxViewPosts
           /\ \E row \in schedules : row.id = id
           /\ SchedulePostCreate(1, id, <<entry>>)
    \/ ScheduleGet(1)

SpecPosts == InitPosts /\ [][NextPosts]_vars

(* The order of the claim: a timed post before an untimed one, timed posts by
   time and then id, untimed posts by id. *)
PostBefore(a, b) ==
    \/ a.time # 0 /\ b.time = 0
    \/ a.time # 0 /\ b.time # 0 /\ (a.time < b.time \/ (a.time = b.time /\ a.id < b.id))
    \/ a.time = 0 /\ b.time = 0 /\ a.id < b.id

PostsInOrder(list) ==
    \A i \in 1..Len(list), j \in 1..Len(list) : i < j => PostBefore(list[i], list[j])

ViewGroups == response.upcoming_groups \o response.past_groups

(* C23: in the list view the posts of a schedule and the posts of a date
   group are in the order timed before untimed, time ascending, id ascending;
   the post list of a group holds exactly the posts of the group's schedule
   ids, each once. *)
C23_PostOrder ==
    IsScheduleView =>
        /\ \A id \in DOMAIN response.posts_by_schedule :
               /\ PostsInOrder(response.posts_by_schedule[id])
               /\ Range(response.posts_by_schedule[id]) =
                      {p \in schedule_posts : p.schedule_id = id}
        /\ \A i \in 1..Len(ViewGroups) :
               LET group == ViewGroups[i]
                   list == response.posts_by_date[group.date_key]
               IN  /\ PostsInOrder(list)
                   /\ Range(list) = {p \in schedule_posts :
                                        p.schedule_id \in Range(group.schedule_ids)}
                   /\ Len(list) = Cardinality(Range(list))

(* A group of two schedules whose posts interleave: a timed post of one
   schedule stands before an untimed post of the other that has a lower id. *)
C23_Witness ==
    /\ IsScheduleView
    /\ \E i \in 1..Len(ViewGroups) :
           LET list == response.posts_by_date[ViewGroups[i].date_key]
           IN  /\ Len(ViewGroups[i].schedule_ids) >= 2
               /\ Len(list) >= 2
               /\ list[1].time # 0 /\ list[2].time = 0
               /\ list[1].id > list[2].id
               /\ list[1].schedule_id # list[2].schedule_id

GroupKeys(groups) == {groups[i].date_key : i \in 1..Len(groups)}

(* C26: in the list view no date key is in an upcoming group and in a past
   group, the "undated" key is in upcoming groups only, and posts_by_date has
   one entry per group, holding the posts of that group's schedules and no
   other post. *)
C26_DateKeysApart ==
    IsScheduleView =>
        /\ GroupKeys(response.upcoming_groups) \cap GroupKeys(response.past_groups) = {}
        /\ Undated \notin GroupKeys(response.past_groups)
        /\ DOMAIN response.posts_by_date = GroupKeys(ViewGroups)
        /\ Len(ViewGroups) = Cardinality(GroupKeys(ViewGroups))
        /\ \A i \in 1..Len(ViewGroups) :
               {p.schedule_id : p \in Range(response.posts_by_date[ViewGroups[i].date_key])}
                   = {id \in Range(ViewGroups[i].schedule_ids) :
                         \E p \in schedule_posts : p.schedule_id = id}

(* The view has an undated group and a past group, each with a post. *)
C26_Witness ==
    /\ IsScheduleView
    /\ Undated \in GroupKeys(response.upcoming_groups)
    /\ response.past_groups # <<>>
    /\ \A i \in 1..Len(ViewGroups) : response.posts_by_date[ViewGroups[i].date_key] # <<>>

-----------------------------------------------------------------------------
(* The home page over schedules of two trips with dates before, on and after
   today, without a date and with one that does not parse. *)

MaxHomeSchedules == 3

HomeForms ==
    {ScheduleForm("t", d, NullUrl, <<>>, <<>>) :
        d \in {NullDate, Undated} \cup {IsoDate(d) : d \in 1..DateMax}}

InitHome == EmptyStore /\ today \in 1..DateMax

NextHome ==
    \/ \E c \in 1..NumTrips, e \in HomeForms :
           /\ next_id.schedules <= MaxHomeSchedules
           /\ SchedulePost(c, <<e>>)
    \/ \E c \in 0..NumTrips : Home(c)

SpecHome == InitHome /\ [][NextHome]_vars

(* The schedules of the trip dated today or later. *)
DatedFromToday(trip) ==
    {r \in schedules : /\ r.trip_id = trip
                       /\ parse_date(r.date) # 0
                       /\ parse_date(r.date) >= today}

(* C27: the next-day list of the home page holds exactly the active trip's
   schedules dated on the smallest date that is today or later, each once;
   without such a schedule next_date is null and the list is empty. *)
C27_NextDay ==
    [][\A c \in 0..NumTrips :
          (Home(c) /\ get_active_trip(c) # 0) =>
              LET trip == get_active_trip(c)
                  list == response'.next_day_schedules
              IN  /\ Len(list) = Cardinality(Range(list))
                  /\ IF DatedFromToday(trip) = {}
                     THEN response'.next_date = 0 /\ list = <<>>
                     ELSE /\ response'.next_date \in
                                {parse_date(r.date) : r \in DatedFromToday(trip)}
                          /\ \A r \in DatedFromToday(trip) :
                                 response'.next_date <= parse_date(r.date)
                          /\ Range(list) =
                                 {r \in DatedFromToday(trip) :
                                     parse_date(r.date) = response'.next_date}]_vars

(* The home page of a trip that has a schedule before today, one whose date
   does not parse and one after today: the list holds the last alone. *)
C27_Witness ==
    /\ response.template = "home.html"
    /\ Len(response.next_day_schedules) = 1
    /\ response.next_date > today
    /\ LET trip == response.next_day_schedules[1].trip_id
       IN  /\ \E r \in schedules : r.trip_id = trip /\ r.date = Undated
           /\ \E r \in schedules : /\ r.trip_id = trip /\ parse_date(r.date) # 0
                                   /\ parse_date(r.date) < today

-----------------------------------------------------------------------------
(* POST /schedule/post/<post_id>/delete store call by store call, for a post
   that is in the store when the request begins, among requests that create
   other posts and other requests that delete posts. *)

MaxDeletePosts == 2

DeleteEntries == {[time |-> 0, title |-> "p", body |-> "", files |-> files] :
                     files \in {<<>>, <<GoodFile>>, <<GoodFile, GoodFile>>}}

(* The handler up to its first store call. *)
SchedulePostDeleteBegin(r, c, post_id) ==
    /\ inflight[r] = Idle
    /\ IF get_active_trip(c) = 0
       THEN response' = Redirect("trips") /\ UNCHANGED inflight
       ELSE /\ inflight' = [inflight EXCEPT ![r] =
                   [pc |-> "delete_post_photos", post_id |-> post_id]]
            /\ UNCHANGED response
    /\ UNCHANGED <<trips, place_tables, schedule_tables, hotel_tables, memos,
                   flights, next_id, uploads, today, trip_settings, cookie>>

(* A variant of the first store call that deletes the post row. *)
SchedulePostDeletePostFirst(r) ==
    /\ inflight[r].pc = "delete_post_photos"
    /\ schedule_posts' = {p \in schedule_posts : p.id # inflight[r].post_id}
    /\ inflight' = [inflight EXCEPT ![r].pc = "delete_post"]
    /\ UNCHANGED <<trips, place_tables, schedules, schedule_photos,
                   schedule_post_photos, hotel_tables, memos, flights, next_id,
                   uploads, today, trip_settings, cookie, response>>

(* The first store call: the delete of the photo rows of the post. *)
SchedulePostDeletePhotos(r) ==
    /\ inflight[r].pc = "delete_post_photos"
    /\ schedule_post_photos' =
           {q \in schedule_post_photos : q.post_id # inflight[r].post_id}
    /\ inflight' = [inflight EXCEPT ![r].pc = "delete_post"]
    /\ UNCHANGED <<trips, place_tables, schedules, schedule_photos, schedule_posts,
                   hotel_tables, memos, flights, next_id, uploads, today,
                   trip_settings, cookie, response>>

(* The second store call, the delete of the post row, and the redirect. *)
SchedulePostDeletePost(r) ==
    /\ inflight[r].pc = "delete_post"
    /\ schedule_posts' = {p \in schedule_posts : p.id # inflight[r].post_id}
    /\ inflight' = [inflight EXCEPT ![r] = Idle]
    /\ response' = Redirect("schedule")
    /\ UNCHANGED <<trips, place_tables, schedules, schedule_photos,
                   schedule_post_photos, hotel_tables, memos, flights, next_id,
                   uploads, today, trip_settings, cookie>>

InitPostDelete == EmptyStore /\ today = 1

NextPostDelete ==
    \/ /\ next_id.schedules = 1
       /\ SchedulePost(1, <<ScheduleForm("t", NullDate, NullUrl, <<>>, <<>>)>>)
    \/ \E entry \in DeleteEntries :
           /\ next_id.schedule_posts <= MaxDeletePosts
           /\ next_id.schedules > 1
           /\ SchedulePostCreate(1, 1, <<entry>>)
    \/ \E r \in Requests :
           \/ \E c \in {0, 1}, post_id \in 1..MaxDeletePosts :
                  /\ \E p \in schedule_posts : p.id = post_id
                  /\ SchedulePostDeleteBegin(r, c, post_id)
           \/ SchedulePostDeletePhotos(r)
           \/ SchedulePostDeletePost(r)
           \/ Stop(r)

SpecPostDelete == InitPostDelete /\ [][NextPostDelete]_vars

(* C28: at every point of the deletion of a diary post, between the two
   store calls of schedule_post_delete, after them and after a stop, no post
   photo row references a post whose row is gone. *)
C28_NoPhotoOfDeletedPost ==
    \A q \in schedule_post_photos : \E p \in schedule_posts : p.id = q.post_id

(* A request stands between its two store calls: it has deleted the photo
   rows of a post that had some, and the post row is still there. *)
C28_Witness ==
    \E r \in Requests :
        /\ inflight[r].pc = "delete_post"
        /\ \E p \in schedule_posts : p.id = inflight[r].post_id
        /\ ~ \E q \in schedule_post_photos : q.post_id = inflight[r].post_id
        /\ uploads > Cardinality(schedule_post_photos)

-----------------------------------------------------------------------------
(* GET /schedule store call by store call: the reads at the head of the
   handler, then one delete per schedule that has excess photos, then the
   page.  Everything the page shows comes from the reads. *)

(* What the handler has read when its loop begins, as the page it renders. *)
schedule_view(trip) ==
    LET rows == schedule_query(trip)
        upcoming == sort_upcoming(SelectSeq(rows, LAMBDA r : ~is_past(r)))
        past == sort_past(SelectSeq(rows, LAMBDA r : is_past(r)))
        schedule_ids == {r.id : r \in Range(upcoming \o past)}
        with_photos == {id \in schedule_ids :
                            \E p \in schedule_photos : p.schedule_id = id}
        ordered(id) == dedupe_photos(schedule_photo_entries(id, schedule_ids))
        posts == {p \in schedule_posts : p.schedule_id \in schedule_ids}
        with_posts == {p.schedule_id : p \in posts}
        posts_by_schedule ==
            [id \in with_posts |->
                sorted_posts(SeqOfSet({p \in posts : p.schedule_id = id}))]
        post_photos == {q \in schedule_post_photos : q.post_id \in {p.id : p \in posts}}
        upcoming_groups == group_schedules_by_date(upcoming)
        past_groups == group_schedules_by_date(past)
    IN  [template |-> "schedule.html",
         trip |-> trip,
         upcoming |-> upcoming,
         past |-> past,
         upcoming_groups |-> upcoming_groups,
         past_groups |-> past_groups,
         photos_by_schedule |-> [id \in with_photos |-> capped_photos(ordered(id))],
         posts_by_schedule |-> posts_by_schedule,
         posts_by_date |-> posts_by_date_of(upcoming_groups \o past_groups,
                                            posts_by_schedule),
         post_photos_by_post |->
             [id \in {q.post_id : q \in post_photos} |->
                 SeqOfSet({q \in post_photos : q.post_id = id})]]

(* The excess_ids of the deletes the loop will issue, in the order of the
   rows of the query. *)
schedule_trims(trip) ==
    LET rows == schedule_query(trip)
        schedule_ids == {rows[i].id : i \in 1..Len(rows)}
        excess == [i \in 1..Len(rows) |->
                      excess_photo_ids(dedupe_photos(
                          schedule_photo_entries(rows[i].id, schedule_ids)))]
    IN  SelectSeq(excess, LAMBDA ids : ids # {})

(* The reads.  The page follows at once when no schedule has excess photos. *)
ScheduleGetRead(r, c) ==
    /\ inflight[r] = Idle
    /\ LET trip == get_active_trip(c)
       IN  IF trip = 0
           THEN response' = Redirect("trips") /\ UNCHANGED inflight
           ELSE IF schedule_trims(trip) = <<>>
           THEN response' = schedule_view(trip) /\ UNCHANGED inflight
           ELSE /\ inflight' = [inflight EXCEPT ![r] =
                       [pc |-> "trim",
                        photos |-> {p \in schedule_photos :
                                       \E row \in schedules :
                                           row.trip_id = trip /\ row.id = p.schedule_id},
                        excess |-> schedule_trims(trip),
                        view |-> schedule_view(trip)]]
                /\ UNCHANGED response
    /\ UNCHANGED <<trips, place_tables, schedule_tables, hotel_tables, memos,
                   flights, next_id, uploads, today, trip_settings, cookie>>

(* A variant of the delete that removes as many rows as excess_ids has, the
   highest ids the schedule has in the store. *)
ScheduleGetTrimLast(r) ==
    /\ inflight[r].pc = "trim"
    /\ LET st == inflight[r]
           excess_ids == Head(st.excess)
           of_schedule == {p \in schedule_photos :
                              \E q \in st.photos :
                                  q.id \in excess_ids /\ q.schedule_id = p.schedule_id}
           last_rows == {p \in of_schedule :
                            Cardinality({q \in of_schedule : q.id > p.id})
                                < Cardinality(excess_ids)}
       IN  /\ schedule_photos' = schedule_photos \ last_rows
           /\ IF Tail(st.excess) = <<>>
              THEN inflight' = [inflight EXCEPT ![r] = Idle] /\ response' = st.view
              ELSE /\ inflight' = [inflight EXCEPT ![r].excess = Tail(st.excess)]
                   /\ UNCHANGED response
    /\ UNCHANGED <<trips, place_tables, schedules, schedule_posts,
                   schedule_post_photos, hotel_tables, memos, flights, next_id,
                   uploads, today, trip_settings, cookie>>

(* The delete of the excess rows of the next schedule that has some; after
   the last one, the page. *)
ScheduleGetTrim(r) ==
    /\ inflight[r].pc = "trim"
    /\ LET st == inflight[r]
           excess_ids == Head(st.excess)
       IN  /\ schedule_photos' = {p \in schedule_photos : p.id \notin excess_ids}
           /\ IF Tail(st.excess) = <<>>
              THEN inflight' = [inflight EXCEPT ![r] = Idle] /\ response' = st.view
              ELSE /\ inflight' = [inflight EXCEPT ![r].excess = Tail(st.excess)]
                   /\ UNCHANGED response
    /\ UNCHANGED <<trips, place_tables, schedules, schedule_posts,
                   schedule_post_photos, hotel_tables, memos, flights, next_id,
                   uploads, today, trip_settings, cookie>>

MaxTrimPhotoId == 6

MaxTrimSchedules == 2

TrimForms ==
    {ScheduleForm("t", NullDate, NullUrl, refs, files) :
        refs \in {<<>>, <<1>>},
        files \in {<<>>, <<GoodFile>>, <<GoodFile, GoodFile>>}}

(* The requests that write photo rows: schedules are created, and updates
   add rows to them. *)
TrimWrites ==
    \/ \E e \in TrimForms :
           /\ next_id.schedules <= MaxTrimSchedules
           /\ next_id.schedule_photos + Len(e.photo_refs) + Len(e.photo_files)
                  <= MaxTrimPhotoId + 1
           /\ SchedulePost(1, <<e>>)
    \/ \E id \in 1..MaxTrimSchedules, f \in TrimForms :
           /\ \E row \in schedules : row.id = id
           /\ next_id.schedule_photos + Len(f.photo_refs) + Len(f.photo_files)
                  <= MaxTrimPhotoId + 1
           /\ ScheduleUpdate(1, id, f)

InitTrim == EmptyStore /\ today = 1

(* Two list views interleave; no other request runs meanwhile. *)
NextTrim ==
    \/ inflight = NoRequests /\ TrimWrites
    \/ \E r \in Requests :
           \/ \E c \in {0, 1} : ScheduleGetRead(r, c)
           \/ ScheduleGetTrim(r)

SpecTrim == InitTrim /\ [][NextTrim]_vars

TrimIds == 1..MaxTrimSchedules

(* The photo rows of the schedule in what the request st has read. *)
SnapOf(st, id) == {p \in st.photos : p.schedule_id = id}

(* The request has read four photo rows of the schedule, of distinct URLs. *)
ReadFour(st, id) ==
    /\ st.pc = "trim"
    /\ Cardinality(SnapOf(st, id)) = 4
    /\ Cardinality({p.photo_url : p \in SnapOf(st, id)}) = 4

HighestId(rows) == CHOOSE id \in Ids(rows) : \A p \in rows : p.id <= id

(* C24: two list views run at once on a schedule with four photo rows of
   distinct URLs.  Each request that has read the four rows computes the same
   excess, the row of the highest id and no other row of the schedule;
   whenever one of them applies that delete, be it the first or the second to
   do so, the store holds exactly the three rows of the lowest ids of the
   schedule. *)
C24_ConcurrentTrim ==
    [][\A r \in Requests, id \in TrimIds :
          /\ (ReadFour(inflight'[r], id) /\ \E c \in {0, 1} : ScheduleGetRead(r, c)) =>
                 \E i \in 1..Len(inflight'[r].excess) :
                     inflight'[r].excess[i] = {HighestId(SnapOf(inflight'[r], id))}
          /\ ReadFour(inflight[r], id) =>
                 /\ \A i \in 1..Len(inflight[r].excess) :
                        inflight[r].excess[i] \cap Ids(SnapOf(inflight[r], id))
                            \subseteq {HighestId(SnapOf(inflight[r], id))}
                 /\ \A q \in Requests :
                        ReadFour(inflight[q], id) =>
                            SnapOf(inflight[q], id) = SnapOf(inflight[r], id)
                 /\ ( /\ ScheduleGetTrim(r)
                      /\ Head(inflight[r].excess) = {HighestId(SnapOf(inflight[r], id))} )
                        => Ids(PhotosOfNext(id)) = LowestIds(SnapOf(inflight[r], id), PhotoCap)]_vars

(* One request has deleted the fourth row and shown its page; the other,
   which had read the four rows too, is about to delete the row again. *)
C24_Witness ==
    \E r \in Requests, id \in TrimIds :
        /\ ReadFour(inflight[r], id)
        /\ Head(inflight[r].excess) = {HighestId(SnapOf(inflight[r], id))}
        /\ Cardinality(PhotosOf(id)) = 3
        /\ IsScheduleView
        /\ HighestId(SnapOf(inflight[r], id)) \notin Ids(schedule_photos)

-----------------------------------------------------------------------------
(* The list view while other requests delete photos of the schedule and
   update it. *)

MaxRaceSchedules == 1

MaxRacePhotoId == 5

RaceBounds ==
    /\ next_id'.schedules <= MaxRaceSchedules + 1
    /\ next_id'.schedule_photos <= MaxRacePhotoId + 1

NextTrimRace ==
    \/ TrimWrites /\ RaceBounds
    \/ \E photo_id \in 1..MaxRacePhotoId : SchedulePhotoDelete(1, photo_id, 0, NullUrl)
    \/ \E r \in Requests :
           \/ \E c \in {0, 1} : ScheduleGetRead(r, c)
           \/ ScheduleGetTrim(r)

SpecTrimRace == InitTrim /\ [][NextTrimRace]_vars

(* The rows the delete of request r removes from the store. *)
TrimmedRows(r) == {p \in schedule_photos : p.id \in Head(inflight[r].excess)}

(* C25 as stated: the delete of the list view never removes a row that is
   among the three lowest-id rows its schedule has when the delete is
   applied, and so never leaves a schedule that had more than three rows with
   fewer than three. *)
C25_TrimSparesLowestThree ==
    [][\A r \in Requests :
          ScheduleGetTrim(r) =>
              \A p \in TrimmedRows(r) :
                  /\ p.id \notin LowestIds(PhotosOf(p.schedule_id), PhotoCap)
                  /\ Cardinality(PhotosOfNext(p.schedule_id)) >= PhotoCap]_vars

(* C25, amended: the delete of the list view removes only rows that the
   request has read and that are not among the three lowest-id rows of their
   schedule in that read. *)
C25_TrimSparesLowestThreeRead ==
    [][\A r \in Requests :
          ScheduleGetTrim(r) =>
              /\ schedule_photos \ schedule_photos' = TrimmedRows(r)
              /\ \A p \in TrimmedRows(r) :
                     /\ p \in inflight[r].photos
                     /\ p.id \notin LowestIds(SnapOf(inflight[r], p.schedule_id),
                                             PhotoCap)]_vars

(* A request is about to delete a row that has become one of the three
   lowest-id rows of its schedule: a row it had read before that one is gone
   from the store. *)
C25_Witness ==
    \E r \in Requests :
        /\ inflight[r].pc = "trim"
        /\ \E p \in TrimmedRows(r) :
               /\ p.id \in LowestIds(PhotosOf(p.schedule_id), PhotoCap)
               /\ \E q \in SnapOf(inflight[r], p.schedule_id) :
                      q.id < p.id /\ q \notin schedule_photos

=============================================================================
